---- MODULE Spec2Model ----
(***************************************************************************)
(* Model of the CAD backend's workflow core: the sketch-request            *)
(* (SurveyorSketchUpload) create path with its applicationId generator,    *)
(* and the survey-sketch assignment service (create / update / respond).   *)
(* Every await in a service function is a step boundary: other calls may   *)
(* run between two steps of one call.                                      *)
(***************************************************************************)
EXTENDS Integers, Sequences, FiniteSets, TLC

VARIABLES
    uploads,      \* SurveyorSketchUpload collection, in insertion order (_id = index)
    assignments,  \* SurveySketchAssignment collection, in insertion order (_id = index)
    procs,        \* per concurrent invocation: the call in flight and its locals
    response,     \* what the last step returned to its caller, if it ended a call
    year,         \* wall clock: new Date().getFullYear()
    masters,      \* District / Taluka / Hobli / Village / CadCenter collections, by _id
    db,           \* the handler module's connection state and mongoose.connection.readyState
    accounts      \* User collection: status and auth fields, by _id

vars == <<uploads, assignments, procs, response, year, masters, db, accounts>>

(***************************************************************************)
(* Bounds                                                                  *)
(***************************************************************************)
NumProcs == 2          \* concurrent invocations
MaxUploads == 1        \* sketch requests, one caller at a time
MaxAssignments == 2    \* assignments
MaxRaceUploads == 1    \* sketch requests under concurrent assignment calls
MaxSubmitUploads == 3  \* sketch requests under concurrent submissions
MaxSeqUploads == 11    \* sketch requests in the long sequential run
MaxYear == 2027        \* last calendar year the clock reaches
MaxFrameUploads == 2   \* sketch requests in the two-request sequential run
MaxValidateUploads == 3 \* sketch requests in the run over every payload
MaxRespondUploads == 1    \* sketch requests in the run over concurrent responses
MaxCenterUploads == 1     \* sketch requests in the run over the CAD centers
MaxDocumentUploads == 2 \* sketch requests in the run over request bodies
MaxBodyDocuments == 1   \* document keys present in one request body
MaxAccessUploads == 2  \* sketch requests in the run of reads by several actors

Procs == 1..NumProcs

(***************************************************************************)
(* Constants of the program                                                *)
(***************************************************************************)
NULL == "null"
StartYear == 2026

USER_ROLES == [SUPER_ADMIN |-> "SUPER_ADMIN", ADMIN |-> "ADMIN", CAD |-> "CAD", SURVEYOR |-> "SURVEYOR"]

SURVEY_SKETCH_STATUS ==
    [PENDING |-> "PENDING", ASSIGNED |-> "ASSIGNED", UNDER_REVIEW |-> "UNDER_REVIEW",
     APPROVED |-> "APPROVED", REJECTED |-> "REJECTED"]

SURVEY_SKETCH_ASSIGNMENT_STATUS ==
    [ASSIGNED |-> "ASSIGNED", IN_PROGRESS |-> "IN_PROGRESS", COMPLETED |-> "COMPLETED",
     ON_HOLD |-> "ON_HOLD", CANCELLED |-> "CANCELLED"]

AssignmentStatuses == {SURVEY_SKETCH_ASSIGNMENT_STATUS[k] : k \in DOMAIN SURVEY_SKETCH_ASSIGNMENT_STATUS}

CAD_ASSIGNMENT_RESPONSE_ACTION == [ACCEPT |-> "accept", REJECT |-> "reject"]

(***************************************************************************)
(* Actors: the authenticated user objects handed to the services.          *)
(* cadCenter is cadProfile.cadCenter (NULL when the operator is unlinked). *)
(***************************************************************************)
Users ==
    [s1 |-> [role |-> USER_ROLES.SURVEYOR, cadCenter |-> NULL],
     s2 |-> [role |-> USER_ROLES.SURVEYOR, cadCenter |-> NULL],
     a1 |-> [role |-> USER_ROLES.ADMIN,    cadCenter |-> NULL],
     o1 |-> [role |-> USER_ROLES.CAD,      cadCenter |-> "C1"],
     o2 |-> [role |-> USER_ROLES.CAD,      cadCenter |-> "C2"],
     o0 |-> [role |-> USER_ROLES.CAD,      cadCenter |-> NULL]]

UserIds == DOMAIN Users

USER_STATUS == [ACTIVE |-> "ACTIVE", DISABLED |-> "DISABLED", PENDING |-> "PENDING"]

\* The stored surveyor accounts, found by phone (the phone is written as the
\* _id): s1 has completed registration, s2 has asked for an OTP once and
\* never verified it.  password tells whether auth.password is set.
SeedAccounts ==
    [s1 |-> [status |-> USER_STATUS.ACTIVE, otpCode |-> NULL, otpVerified |-> TRUE, password |-> TRUE],
     s2 |-> [status |-> USER_STATUS.ACTIVE, otpCode |-> "otp", otpVerified |-> FALSE, password |-> FALSE]]
CadUsers == {u \in UserIds : Users[u].role = USER_ROLES.CAD}

(***************************************************************************)
(* Master data read by the services (District / Taluka / Hobli / Village   *)
(* and CadCenter documents).  An id outside the table is a well-formed     *)
(* ObjectId that matches no document.  The hierarchy collections start     *)
(* with two chains, D1-T1-H1-V1 and D2-T2-H2-V2; the schemas keep the      *)
(* parent pointer of the level directly above and nothing higher.          *)
(***************************************************************************)
SeedDistricts == [D1 |-> [code |-> "KA", name |-> "north"], D2 |-> [code |-> "MH", name |-> "south"]]
SeedTalukas   == [T1 |-> [districtId |-> "D1", code |-> "N", name |-> "upper"],
                  T2 |-> [districtId |-> "D2", code |-> "N", name |-> "lower"]]
SeedHoblis    == [H1 |-> [talukaId |-> "T1", code |-> "h"], H2 |-> [talukaId |-> "T2", code |-> "h"]]
SeedVillages  == [V1 |-> [hobliId |-> "H1", code |-> "v"], V2 |-> [hobliId |-> "H2", code |-> "v"]]

Districts == masters.districts
Talukas   == masters.talukas
Hoblis    == masters.hoblis
Villages  == masters.villages
SeedCadCenters == [C1 |-> [name |-> "n1", deletedAt |-> NULL], C2 |-> [name |-> "n1", deletedAt |-> NULL]]
CadCenters == masters.cadCenters

CadCenterIds == DOMAIN SeedCadCenters \cup {"C9"}

\* A request may spell an ObjectId otherwise than the store prints it (hex
\* digits in upper case): validObjectId returns the text as given, findById
\* casts it, and String(...) comparisons see the text.
IdSpellings == [d1 |-> "D1", v1 |-> "V1"]

CastObjectId(id) == IF id \in DOMAIN IdSpellings THEN IdSpellings[id] ELSE id

SURVEY_SKETCH_DOCUMENT_KEYS == {"moolaTippani", "hissaTippani", "atlas", "rrPakkabook", "kharabu"}

\* the documents map of a request that carries one survey document
OneDocument == [atlas |-> "u"]

Payloads ==
    [district : DOMAIN SeedDistricts \cup {"D9", "d1"}, taluka : DOMAIN SeedTalukas,
     hobli : DOMAIN SeedHoblis, village : DOMAIN SeedVillages \cup {"v1"},
     documents : {OneDocument}]

\* new SurveyorSketchUpload({...}) casts the four references
CastPayload(payload) ==
    [district |-> CastObjectId(payload.district), taluka |-> CastObjectId(payload.taluka),
     hobli |-> CastObjectId(payload.hobli), village |-> CastObjectId(payload.village),
     documents |-> payload.documents]

ValidPayloads ==
    {[district |-> "D1", taluka |-> "T1", hobli |-> "H1", village |-> "V1",
      documents |-> OneDocument],
     [district |-> "D2", taluka |-> "T2", hobli |-> "H2", village |-> "V2",
      documents |-> OneDocument]}

(***************************************************************************)
(* Strings of decimal digits, as JavaScript produces and compares them.    *)
(***************************************************************************)
RECURSIVE NumberToString(_)
NumberToString(n) ==
    IF n < 10 THEN <<n>> ELSE Append(NumberToString(n \div 10), n % 10)

RECURSIVE parseInt(_)
parseInt(ds) ==
    IF Len(ds) = 0 THEN 0
    ELSE parseInt(SubSeq(ds, 1, Len(ds) - 1)) * 10 + ds[Len(ds)]

\* Binary string order used by the store's sort on applicationId.
StringLess(a, b) ==
    \E i \in 1..Len(b) :
        /\ \A j \in 1..(i - 1) : j <= Len(a) /\ a[j] = b[j]
        /\ \/ i = Len(a) + 1
           \/ i <= Len(a) /\ a[i] < b[i]

(***************************************************************************)
(* Responses                                                               *)
(***************************************************************************)
\* What the caller receives.  kind is the error class (its statusCode), code
\* the machine code, names the values the message text interpolates.
Ok(op) == [op |-> op, kind |-> "OK", code |-> NULL, names |-> <<>>]

\* errors.js AppError, lines 10-18: the constructor keeps the message and, of
\* the options, statusCode, code and errors; any other option is dropped.
\* asyncHandler reports statusCode, message, errors and code.
AppError(op, k, names, opts) == [op |-> op, kind |-> k, code |-> opts.code, names |-> names]

\* an error whose message is a fixed text
Err(op, k, c) == AppError(op, k, <<>>, [code |-> c])

\* a step that ends no call returns nothing
NoResponse == [op |-> "none", kind |-> "none", code |-> NULL, names |-> <<>>]

Idle == [op |-> "idle"]

(***************************************************************************)
(* Sketch request create                                                   *)
(***************************************************************************)
\* surveyorSketchUpload.service.js create, lines 27-75: role check, the four
\* existence checks, then the three parent-pointer checks, first failure wins.
\* The lookups cast the ids; the pointer checks compare the stored pointer's
\* text with the text of the payload.
UploadCreateError(actor, payload) ==
    LET c == CastPayload(payload) IN
    IF Users[actor].role # USER_ROLES.SURVEYOR THEN <<"Forbidden", NULL>>
    ELSE IF c.district \notin DOMAIN Districts THEN <<"NotFound", "DISTRICT_NOT_FOUND">>
    ELSE IF c.taluka \notin DOMAIN Talukas THEN <<"NotFound", "TALUKA_NOT_FOUND">>
    ELSE IF c.hobli \notin DOMAIN Hoblis THEN <<"NotFound", "HOBLI_NOT_FOUND">>
    ELSE IF c.village \notin DOMAIN Villages THEN <<"NotFound", "VILLAGE_NOT_FOUND">>
    ELSE IF Talukas[c.taluka].districtId # payload.district
         THEN <<"BadRequest", "TALUKA_DISTRICT_MISMATCH">>
    ELSE IF Hoblis[c.hobli].talukaId # payload.taluka
         THEN <<"BadRequest", "HOBLI_TALUKA_MISMATCH">>
    ELSE IF Villages[c.village].hobliId # payload.hobli
         THEN <<"BadRequest", "VILLAGE_HOBLI_MISMATCH">>
    ELSE <<"OK", NULL>>

\* pre('save') lines 175-186: `${districtCode}/${talukaCode}/${year}/`
Prefix(district, taluka) ==
    <<Districts[district].code, Talukas[taluka].code, year % 100>>

\* documents whose applicationId matches ^prefix\d+$
MatchingDocs(prefix) ==
    {i \in DOMAIN uploads : uploads[i].applicationId.prefix = prefix}

\* findOne(...).sort({ applicationId: -1 }): a document with the greatest
\* applicationId in string order; 0 when no document matches.
LastDoc(prefix) ==
    IF MatchingDocs(prefix) = {} THEN 0
    ELSE CHOOSE i \in MatchingDocs(prefix) :
            \A j \in MatchingDocs(prefix) :
                ~StringLess(uploads[i].applicationId.digits, uploads[j].applicationId.digits)

\* pre('save') lines 196-205
NextApplicationId(prefix) ==
    LET lastDoc    == LastDoc(prefix)
        maxNumber  == IF lastDoc = 0 THEN 0 ELSE parseInt(uploads[lastDoc].applicationId.digits)
        nextNumber == maxNumber + 1
    IN  [prefix |-> prefix, digits |-> NumberToString(nextNumber)]

\* mutant: applicationId declared without the unique option
ApplicationIdTaken_NotUnique(appId) == FALSE

\* the unique index on applicationId (model lines 81-87)
ApplicationIdTaken(appId) ==
    \E i \in DOMAIN uploads : uploads[i].applicationId = appId

\* service create up to the point where doc.save() is entered
UploadCreateBegin(p, actor, payload) ==
    /\ procs[p] = Idle
    /\ LET e == UploadCreateError(actor, payload) IN
       IF e[1] # "OK"
       THEN /\ response' = Err("uploadCreate", e[1], e[2])
            /\ UNCHANGED procs
       ELSE /\ procs' = [procs EXCEPT ![p] =
                   [op |-> "uploadCreate", pc |-> "generate", surveyor |-> actor,
                    payload |-> CastPayload(payload)]]
            /\ response' = NoResponse
    /\ UNCHANGED <<uploads, assignments, year, masters, db, accounts>>

\* pre('validate') hook: some(k => this.documents.get(k)?.url) over the five keys
HasAtLeastOne(documents) ==
    \E k \in SURVEY_SKETCH_DOCUMENT_KEYS \cap DOMAIN documents : documents[k] # ""

\* doc.save(): the pre('validate') hook fails with a plain Error, which the
\* catch block rethrows as it is (500 UNEXPECTED_ERROR); the schema then
\* requires a url on every document (ValidationError, rethrown as BadRequest);
\* then the pre('save') hook populates the codes, queries the last document
\* and builds the id
UploadGenerate(p) ==
    /\ procs[p].op = "uploadCreate" /\ procs[p].pc = "generate"
    /\ IF ~HasAtLeastOne(procs[p].payload.documents)
       THEN /\ procs' = [procs EXCEPT ![p] = Idle]
            /\ response' = Err("uploadCreate", "Internal", "UNEXPECTED_ERROR")
       ELSE IF \E k \in DOMAIN procs[p].payload.documents : procs[p].payload.documents[k] = ""
       THEN /\ procs' = [procs EXCEPT ![p] = Idle]
            /\ response' = Err("uploadCreate", "BadRequest", "VALIDATION_ERROR")
       ELSE /\ procs' = [procs EXCEPT ![p] =
                   [op |-> "uploadCreate", pc |-> "insert", surveyor |-> procs[p].surveyor,
                    payload |-> procs[p].payload,
                    applicationId |-> NextApplicationId(Prefix(procs[p].payload.district, procs[p].payload.taluka))]]
            /\ response' = NoResponse
    /\ UNCHANGED <<uploads, assignments, year, masters, db, accounts>>

\* the insert issued by doc.save(), and the catch block of lines 94-108: the
\* duplicate-key message names the applicationId index, so the error is
\* rethrown as BadRequest APPLICATION_ID_GENERATION_FAILED.  No retry.
UploadInsert(p, bound) ==
    /\ procs[p].op = "uploadCreate" /\ procs[p].pc = "insert"
    /\ IF ApplicationIdTaken(procs[p].applicationId)
       THEN /\ response' = Err("uploadCreate", "BadRequest", "APPLICATION_ID_GENERATION_FAILED")
            /\ UNCHANGED uploads
       ELSE /\ Len(uploads) < bound
            /\ uploads' = Append(uploads,
                   [surveyor |-> procs[p].surveyor,
                    district |-> procs[p].payload.district, taluka |-> procs[p].payload.taluka,
                    hobli |-> procs[p].payload.hobli, village |-> procs[p].payload.village,
                    documents |-> procs[p].payload.documents,
                    applicationId |-> procs[p].applicationId,
                    status |-> SURVEY_SKETCH_STATUS.PENDING])
            /\ response' = Ok("uploadCreate")
    /\ procs' = [procs EXCEPT ![p] = Idle]
    /\ UNCHANGED <<assignments, year, masters, db, accounts>>

\* String.prototype.trim over the texts of the model
Trim(text) == IF text = " " THEN "" ELSE text

DocumentUrl_NoTrim(raw) ==
    IF raw.kind = "absent" \/ (raw.kind = "string" /\ raw.url = "") THEN "" ELSE raw.url

\* the url the validator reads from body[key]: nothing for null and "", the
\* trimmed text of a string, the trimmed url of an object
DocumentUrl(raw) ==
    IF raw.kind = "absent" \/ (raw.kind = "string" /\ raw.url = "") THEN "" ELSE Trim(raw.url)

\* the documents object the validator builds: one entry per key with a url
surveyorSketchUploadCreate(body) ==
    [k \in {key \in SURVEY_SKETCH_DOCUMENT_KEYS : DocumentUrl(body[key]) # ""} |-> DocumentUrl(body[k])]

\* the handler: authorize(SURVEYOR), validate(schemas.surveyorSketchUploadCreate)
\* which throws BadRequest (no code) when hasDocument is false, then the service
createSurveyorSketchUpload(p, actor, body) ==
    LET documents == surveyorSketchUploadCreate(body) IN
    IF Users[actor].role = USER_ROLES.SURVEYOR /\ DOMAIN documents = {}
    THEN /\ procs[p] = Idle
         /\ response' = Err("uploadCreate", "BadRequest", NULL)
         /\ UNCHANGED <<uploads, assignments, procs, year, masters, db, accounts>>
    ELSE UploadCreateBegin(p, actor,
             [district |-> body.district, taluka |-> body.taluka, hobli |-> body.hobli,
              village |-> body.village, documents |-> documents])

(***************************************************************************)
(* Sketch request reads                                                    *)
(***************************************************************************)
DEFAULT_PAGE == 1
DEFAULT_LIMIT == 20
MAX_LIMIT == 100

\* a successful read: data are the _ids of the documents returned, in order
OkDoc(op, id) == [op |-> op, kind |-> "OK", code |-> NULL, names |-> <<>>, data |-> <<id>>]

OkPage(op, data, total) ==
    [op |-> op, kind |-> "OK", code |-> NULL, names |-> <<>>, data |-> data, total |-> total]

\* the handler has authenticated the caller; the service call is next
UploadGetBegin(p, actor, uploadId) ==
    /\ procs[p] = Idle
    /\ procs' = [procs EXCEPT ![p] = [op |-> "uploadGet", pc |-> "find", actor |-> actor, uploadId |-> uploadId]]
    /\ response' = NoResponse
    /\ UNCHANGED <<uploads, assignments, year, masters, db, accounts>>

\* getById lines 117-140
UploadGetError(actor, uploadId) ==
    IF uploadId \notin DOMAIN uploads THEN "NotFound"
    ELSE IF Users[actor].role = USER_ROLES.SURVEYOR
         THEN IF uploads[uploadId].surveyor # actor THEN "Forbidden" ELSE "OK"
    ELSE IF Users[actor].role # USER_ROLES.SUPER_ADMIN /\ Users[actor].role # USER_ROLES.ADMIN
         THEN "Forbidden"
    ELSE "OK"

UploadGetFind(p) ==
    /\ procs[p].op = "uploadGet" /\ procs[p].pc = "find"
    /\ LET e == UploadGetError(procs[p].actor, procs[p].uploadId) IN
       response' = IF e = "OK" THEN OkDoc("uploadGet", procs[p].uploadId)
                   ELSE Err("uploadGet", e, NULL)
    /\ procs' = [procs EXCEPT ![p] = Idle]
    /\ UNCHANGED <<uploads, assignments, year, masters, db, accounts>>

\* list lines 150-152: parseInt(...) || default, then the clamps.  An absent
\* or unparsable option and the number 0 all give the default; 0 stands for
\* them here.
PageOf(options) ==
    LET n == IF options.page = 0 THEN DEFAULT_PAGE ELSE options.page
    IN  IF n < 1 THEN 1 ELSE n

LimitOf(options) ==
    LET n == IF options.limit = 0 THEN DEFAULT_LIMIT ELSE options.limit
    IN  IF n < 1 THEN 1 ELSE IF n > MAX_LIMIT THEN MAX_LIMIT ELSE n

\* the handler has authenticated the caller; list lines 166-173 run next when
\* a cadCenterId is given, the find of lines 175-187 otherwise
UploadListBegin(p, actor, options) ==
    /\ procs[p] = Idle
    /\ procs' = [procs EXCEPT ![p] =
           [op |-> "uploadList", pc |-> IF options.cadCenterId # NULL THEN "assignments" ELSE "find",
            actor |-> actor, options |-> options, uploadIds |-> {}]]
    /\ response' = NoResponse
    /\ UNCHANGED <<uploads, assignments, year, masters, db, accounts>>

\* lines 166-173: the requests that have an assignment of that center
UploadListAssignments(p) ==
    /\ procs[p].op = "uploadList" /\ procs[p].pc = "assignments"
    /\ procs' = [procs EXCEPT ![p].pc = "find",
                              ![p].uploadIds =
                                  {assignments[a].surveyorSketchUpload :
                                      a \in {b \in DOMAIN assignments :
                                                assignments[b].cadCenter = procs[p].options.cadCenterId}}]
    /\ response' = NoResponse
    /\ UNCHANGED <<uploads, assignments, year, masters, db, accounts>>

\* mutant: the surveyorId option is honoured for every caller
FilterSurveyor_OptionFirst(actor, options) ==
    IF options.surveyorId # NULL THEN options.surveyorId
    ELSE IF Users[actor].role = USER_ROLES.SURVEYOR THEN actor ELSE NULL

\* lines 156-160: filter.surveyor (NULL: no such filter)
FilterSurveyor(actor, options) ==
    IF Users[actor].role = USER_ROLES.SURVEYOR THEN actor ELSE options.surveyorId

\* lines 156-173: the filter handed to find and countDocuments
Matches(call) ==
    {u \in DOMAIN uploads :
        /\ FilterSurveyor(call.actor, call.options) \in {NULL, uploads[u].surveyor}
        /\ call.options.status \in {NULL, uploads[u].status}
        /\ call.options.cadCenterId # NULL => u \in call.uploadIds}

\* sort({ createdAt: -1 }): the matching _ids, newest first
RECURSIVE NewestFirst(_)
NewestFirst(S) ==
    IF S = {} THEN <<>>
    ELSE LET m == CHOOSE x \in S : \A y \in S : y <= x
         IN  <<m>> \o NewestFirst(S \ {m})

\* skip(skip).limit(limit)
PageSlice(seq, skip, limit) ==
    SubSeq(seq, skip + 1, IF skip + limit < Len(seq) THEN skip + limit ELSE Len(seq))

\* lines 175-192
UploadListFind(p) ==
    /\ procs[p].op = "uploadList" /\ procs[p].pc = "find"
    /\ response' = OkPage("uploadList",
                          PageSlice(NewestFirst(Matches(procs[p])),
                                    (PageOf(procs[p].options) - 1) * LimitOf(procs[p].options),
                                    LimitOf(procs[p].options)),
                          Cardinality(Matches(procs[p])))
    /\ procs' = [procs EXCEPT ![p] = Idle]
    /\ UNCHANGED <<uploads, assignments, year, masters, db, accounts>>

(***************************************************************************)
(* Assignment service                                                      *)
(***************************************************************************)
NonCancelled(u) ==
    {a \in DOMAIN assignments :
        /\ assignments[a].surveyorSketchUpload = u
        /\ assignments[a].status # SURVEY_SKETCH_ASSIGNMENT_STATUS.CANCELLED}

Min(S) == CHOOSE x \in S : \A y \in S : x <= y

\* mutant: the pre-check matches status ASSIGNED instead of excluding CANCELLED
FindExisting_AssignedOnly(u) ==
    LET S == {a \in NonCancelled(u) : assignments[a].status = SURVEY_SKETCH_ASSIGNMENT_STATUS.ASSIGNED}
    IN  IF S = {} THEN 0 ELSE Min(S)

\* create lines 56-59: findOne({ surveyorSketchUpload, status: { $nin: [CANCELLED] } })
FindExisting(u) ==
    IF NonCancelled(u) = {} THEN 0 ELSE Min(NonCancelled(u))

FindLiveCenter_AnyCenter(c) == c \in DOMAIN CadCenters

\* CadCenter.findOne({ _id, deletedAt: null })
FindLiveCenter(c) ==
    c \in DOMAIN CadCenters /\ CadCenters[c].deletedAt = NULL

\* SurveySketchAssignment.js lines 74-78: the { surveyorSketchUpload, status }
\* index is declared with a partial filter only; it carries no unique option,
\* so the store rejects no insert.
IndexRejectsInsert(doc) == FALSE

\* A loaded mongoose document tracks the paths assigned a value different from
\* the loaded one; doc.save() sends exactly those paths in one $set.
ModifiedPaths(loaded, assigned) ==
    {f \in DOMAIN assigned : assigned[f] # loaded[f]}

\* the stored document after the $set
ApplySet(stored, set) ==
    [f \in DOMAIN stored |-> IF f \in DOMAIN set THEN set[f] ELSE stored[f]]

\* create lines 27-39
AssignCreateBegin(p, payload) ==
    /\ procs[p] = Idle
    /\ IF payload.surveyorSketchUploadId \notin DOMAIN uploads
       THEN /\ response' = Err("assignCreate", "NotFound", "SURVEY_SKETCH_NOT_FOUND")
            /\ UNCHANGED procs
       ELSE IF ~FindLiveCenter(payload.cadCenterId)
       THEN /\ response' = Err("assignCreate", "NotFound", "CAD_CENTER_NOT_FOUND")
            /\ UNCHANGED procs
       ELSE /\ procs' = [procs EXCEPT ![p] =
                   [op |-> "assignCreate", pc |-> "check", payload |-> payload]]
            /\ response' = NoResponse
    /\ UNCHANGED <<uploads, assignments, year, masters, db, accounts>>

\* create lines 56-76
AssignCreateCheck(p) ==
    /\ procs[p].op = "assignCreate" /\ procs[p].pc = "check"
    /\ LET existing == FindExisting(procs[p].payload.surveyorSketchUploadId) IN
       IF existing # 0
       THEN /\ response' = AppError("assignCreate", "Conflict", <<>>,
                                [code |-> "ALREADY_ASSIGNED", assignmentId |-> existing])
            /\ procs' = [procs EXCEPT ![p] = Idle]
       ELSE /\ procs' = [procs EXCEPT ![p] =
                   [op |-> "assignCreate", pc |-> "save", payload |-> procs[p].payload]]
            /\ response' = NoResponse
    /\ UNCHANGED <<uploads, assignments, year, masters, db, accounts>>

\* mutant: the new document names an operator
NewAssignment_PreAssigned(payload) ==
    [surveyorSketchUpload |-> payload.surveyorSketchUploadId,
     cadCenter |-> payload.cadCenterId,
     assignedTo |-> "o1",
     status |-> SURVEY_SKETCH_ASSIGNMENT_STATUS.ASSIGNED,
     completedAt |-> NULL]

\* create lines 68-76: the new document
NewAssignment(payload) ==
    [surveyorSketchUpload |-> payload.surveyorSketchUploadId,
     cadCenter |-> payload.cadCenterId,
     assignedTo |-> NULL,
     status |-> SURVEY_SKETCH_ASSIGNMENT_STATUS.ASSIGNED,
     completedAt |-> NULL]

\* mutant: the insert and the request's status written in one step
AssignCreateSave_BothWrites(p) ==
    /\ procs[p].op = "assignCreate" /\ procs[p].pc = "save"
    /\ Len(assignments) < MaxAssignments
    /\ assignments' = Append(assignments, NewAssignment(procs[p].payload))
    /\ uploads' = [uploads EXCEPT ![procs[p].payload.surveyorSketchUploadId].status =
                       SURVEY_SKETCH_STATUS.ASSIGNED]
    /\ procs' = [procs EXCEPT ![p] =
           [op |-> "assignCreate", pc |-> "sync", payload |-> procs[p].payload]]
    /\ response' = NoResponse
    /\ UNCHANGED <<year, masters, db, accounts>>

\* create line 78: await doc.save()
AssignCreateSave(p) ==
    /\ procs[p].op = "assignCreate" /\ procs[p].pc = "save"
    /\ IF IndexRejectsInsert(NewAssignment(procs[p].payload))
       THEN /\ response' = Err("assignCreate", "Internal", "E11000")
            /\ procs' = [procs EXCEPT ![p] = Idle]
            /\ UNCHANGED assignments
       ELSE /\ Len(assignments) < MaxAssignments
            /\ assignments' = Append(assignments, NewAssignment(procs[p].payload))
            /\ procs' = [procs EXCEPT ![p] =
                   [op |-> "assignCreate", pc |-> "sync", payload |-> procs[p].payload]]
            /\ response' = NoResponse
    /\ UNCHANGED <<uploads, year, masters, db, accounts>>

\* mutant: the request is written back with doc.save() and a hook that
\* generates the applicationId again
AssignCreateSync_Regenerate(p) ==
    /\ procs[p].op = "assignCreate" /\ procs[p].pc = "sync"
    /\ LET u == procs[p].payload.surveyorSketchUploadId IN
       uploads' = [uploads EXCEPT ![u].status = SURVEY_SKETCH_STATUS.ASSIGNED,
                                  ![u].applicationId =
                                      NextApplicationId(Prefix(uploads[u].district, uploads[u].taluka))]
    /\ response' = Ok("assignCreate")
    /\ procs' = [procs EXCEPT ![p] = Idle]
    /\ UNCHANGED <<assignments, year, masters, db, accounts>>

\* create lines 81-91: findByIdAndUpdate(sketch, { status: ASSIGNED }), then return
AssignCreateSync(p) ==
    /\ procs[p].op = "assignCreate" /\ procs[p].pc = "sync"
    /\ uploads' = [uploads EXCEPT ![procs[p].payload.surveyorSketchUploadId].status =
                       SURVEY_SKETCH_STATUS.ASSIGNED]
    /\ response' = Ok("assignCreate")
    /\ procs' = [procs EXCEPT ![p] = Idle]
    /\ UNCHANGED <<assignments, year, masters, db, accounts>>

\* mutant: update also assigns the operator (the assignment the code leaves
\* commented out at lines 171-172)
Allowed_WithAssignee(updates) ==
    IF updates.status \in AssignmentStatuses
    THEN [status |-> updates.status, assignedTo |-> "o2"]
    ELSE [assignedTo |-> "o2"]

\* update lines 164-170: the modelled fields update() may assign.  A status
\* of NULL is a request that carries only dueDate or notes.
Allowed(updates) ==
    IF updates.status \in AssignmentStatuses
    THEN [f \in {"status"} |-> updates.status]
    ELSE [f \in {} |-> NULL]

\* mutant: update never stamps completedAt
StampsCompletedAt_Never(updates) == FALSE

\* update lines 167-169: completedAt = new Date(), a value no loaded document holds
StampsCompletedAt(updates) ==
    updates.status = SURVEY_SKETCH_ASSIGNMENT_STATUS.COMPLETED

\* update lines 164-176: the $set that doc.save() will send
UpdateSet(loaded, updates) ==
    LET allowed == Allowed(updates)
        paths   == ModifiedPaths(loaded, allowed) \cup
                   (IF StampsCompletedAt(updates) THEN {"completedAt"} ELSE {})
    IN  [f \in paths |-> IF f = "completedAt" THEN "date" ELSE allowed[f]]

\* update lines 159-176
UpdateBegin(p, assignmentId, updates) ==
    /\ procs[p] = Idle
    /\ IF assignmentId \notin DOMAIN assignments
       THEN /\ response' = Err("update", "NotFound", "ASSIGNMENT_NOT_FOUND")
            /\ UNCHANGED procs
       ELSE /\ procs' = [procs EXCEPT ![p] =
                   [op |-> "update", pc |-> "save", id |-> assignmentId,
                    set |-> UpdateSet(assignments[assignmentId], updates),
                    cancel |-> (updates.status = SURVEY_SKETCH_ASSIGNMENT_STATUS.CANCELLED),
                    upload |-> assignments[assignmentId].surveyorSketchUpload]]
            /\ response' = NoResponse
    /\ UNCHANGED <<uploads, assignments, year, masters, db, accounts>>

\* update lines 177-180
UpdateSave(p) ==
    /\ procs[p].op = "update" /\ procs[p].pc = "save"
    /\ assignments' = [assignments EXCEPT ![procs[p].id] = ApplySet(@, procs[p].set)]
    /\ IF procs[p].cancel
       THEN /\ procs' = [procs EXCEPT ![p] =
                   [op |-> "update", pc |-> "sync", id |-> procs[p].id, upload |-> procs[p].upload]]
            /\ response' = NoResponse
       ELSE /\ procs' = [procs EXCEPT ![p] = Idle]
            /\ response' = Ok("update")
    /\ UNCHANGED <<uploads, year, masters, db, accounts>>

\* mutant: a cancelling update returns without writing the request
UpdateSync_NoRequestWrite(p) ==
    /\ procs[p].op = "update" /\ procs[p].pc = "sync"
    /\ response' = Ok("update")
    /\ procs' = [procs EXCEPT ![p] = Idle]
    /\ UNCHANGED <<uploads, assignments, year, masters, db, accounts>>

\* update lines 181-190
UpdateSync(p) ==
    /\ procs[p].op = "update" /\ procs[p].pc = "sync"
    /\ uploads' = [uploads EXCEPT ![procs[p].upload].status = SURVEY_SKETCH_STATUS.PENDING]
    /\ response' = Ok("update")
    /\ procs' = [procs EXCEPT ![p] = Idle]
    /\ UNCHANGED <<assignments, year, masters, db, accounts>>

\* mutant: the status check placed before the center checks
RespondError_StatusFirst(doc, cadUser) ==
    LET userCenterId == Users[cadUser].cadCenter IN
    IF doc.status # SURVEY_SKETCH_ASSIGNMENT_STATUS.ASSIGNED
         THEN <<"BadRequest", "INVALID_STATUS_FOR_RESPONSE">>
    ELSE IF userCenterId = NULL THEN <<"Forbidden", "CAD_CENTER_NOT_LINKED">>
    ELSE IF doc.cadCenter = NULL \/ userCenterId # doc.cadCenter
         THEN <<"Forbidden", "ASSIGNMENT_NOT_FOR_YOUR_CENTER">>
    ELSE <<"OK", NULL>>

\* mutant: the status check left out
RespondError_NoStatusCheck(doc, cadUser) ==
    LET userCenterId == Users[cadUser].cadCenter IN
    IF userCenterId = NULL THEN <<"Forbidden", "CAD_CENTER_NOT_LINKED">>
    ELSE IF doc.cadCenter = NULL \/ userCenterId # doc.cadCenter
         THEN <<"Forbidden", "ASSIGNMENT_NOT_FOR_YOUR_CENTER">>
    ELSE <<"OK", NULL>>

\* respondToAssignment lines 207-227: the reason the call is refused, if any
RespondError(doc, cadUser) ==
    LET userCenterId == Users[cadUser].cadCenter IN
    IF userCenterId = NULL THEN <<"Forbidden", "CAD_CENTER_NOT_LINKED">>
    ELSE IF doc.cadCenter = NULL \/ userCenterId # doc.cadCenter
         THEN <<"Forbidden", "ASSIGNMENT_NOT_FOR_YOUR_CENTER">>
    ELSE IF doc.status # SURVEY_SKETCH_ASSIGNMENT_STATUS.ASSIGNED
         THEN <<"BadRequest", "INVALID_STATUS_FOR_RESPONSE">>
    ELSE <<"OK", NULL>>

\* mutant: accept does not record the operator
RespondAssigned_NoAssignee(cadUser, action) ==
    IF action = CAD_ASSIGNMENT_RESPONSE_ACTION.ACCEPT
    THEN [status |-> SURVEY_SKETCH_ASSIGNMENT_STATUS.IN_PROGRESS]
    ELSE [status |-> SURVEY_SKETCH_ASSIGNMENT_STATUS.CANCELLED]

\* respondToAssignment lines 229-236: the values assigned to the loaded document
RespondAssigned(cadUser, action) ==
    IF action = CAD_ASSIGNMENT_RESPONSE_ACTION.ACCEPT
    THEN [status |-> SURVEY_SKETCH_ASSIGNMENT_STATUS.IN_PROGRESS, assignedTo |-> cadUser]
    ELSE [status |-> SURVEY_SKETCH_ASSIGNMENT_STATUS.CANCELLED]

\* the $set that doc.save() will send
RespondSet(loaded, cadUser, action) ==
    LET assigned == RespondAssigned(cadUser, action) IN
    [f \in ModifiedPaths(loaded, assigned) |-> assigned[f]]

\* respondToAssignment lines 202-233, up to the save
RespondBegin(p, assignmentId, cadUser, action) ==
    /\ procs[p] = Idle
    /\ IF assignmentId \notin DOMAIN assignments
       THEN /\ response' = Err("respond", "NotFound", "ASSIGNMENT_NOT_FOUND")
            /\ UNCHANGED procs
       ELSE LET doc == assignments[assignmentId]
                e   == RespondError(doc, cadUser) IN
            IF e[1] = "BadRequest"
            THEN /\ response' = AppError("respond", e[1], <<doc.status>>,
                                     [code |-> e[2], currentStatus |-> doc.status])
                 /\ UNCHANGED procs
            ELSE IF e[1] # "OK"
            THEN /\ response' = Err("respond", e[1], e[2])
                 /\ UNCHANGED procs
            ELSE /\ procs' = [procs EXCEPT ![p] =
                        [op |-> "respond", pc |-> "save", id |-> assignmentId,
                         cadUser |-> cadUser, action |-> action,
                         set |-> RespondSet(doc, cadUser, action),
                         upload |-> doc.surveyorSketchUpload]]
                 /\ response' = NoResponse
    /\ UNCHANGED <<uploads, assignments, year, masters, db, accounts>>

\* respondToAssignment lines 234 / 237
RespondSave(p) ==
    /\ procs[p].op = "respond" /\ procs[p].pc = "save"
    /\ assignments' = [assignments EXCEPT ![procs[p].id] = ApplySet(@, procs[p].set)]
    /\ IF procs[p].action = CAD_ASSIGNMENT_RESPONSE_ACTION.ACCEPT
       THEN /\ procs' = [procs EXCEPT ![p] = Idle]
            /\ response' = Ok("respond")
       ELSE /\ procs' = [procs EXCEPT ![p] =
                   [op |-> "respond", pc |-> "sync", id |-> procs[p].id,
                    upload |-> procs[p].upload]]
            /\ response' = NoResponse
    /\ UNCHANGED <<uploads, year, masters, db, accounts>>

\* respondToAssignment lines 238-250
RespondSync(p) ==
    /\ procs[p].op = "respond" /\ procs[p].pc = "sync"
    /\ uploads' = [uploads EXCEPT ![procs[p].upload].status = SURVEY_SKETCH_STATUS.PENDING]
    /\ response' = Ok("respond")
    /\ procs' = [procs EXCEPT ![p] = Idle]
    /\ UNCHANGED <<assignments, year, masters, db, accounts>>

\* The invocation ends while a call waits between its two writes (the
\* function times out or its process ends): the first write stays, the
\* second is never sent, and the caller gets no answer from the service.
Stop(p) ==
    /\ procs[p].op \in {"assignCreate", "update", "respond"} /\ procs[p].pc = "sync"
    /\ procs' = [procs EXCEPT ![p] = Idle]
    /\ response' = NoResponse
    /\ UNCHANGED <<uploads, assignments, year, masters, db, accounts>>

(***************************************************************************)
(* Hierarchy services (District / Taluka / Hobli / Village)                *)
(*                                                                         *)
(* A document keeps the pointer its schema declares: a hobli its talukaId, *)
(* a village its hobliId; what the services pass beyond the schema is      *)
(* dropped on construction.  populate() of a path the schema lacks         *)
(* (districtId on Hobli) leaves the field absent, which is the case the    *)
(* village service's own null test on hobli.districtId provides for.       *)
(* No service deletes a hierarchy document.                                *)
(***************************************************************************)
MaxSameKeyEntities == 2  \* documents created per hierarchy collection, concurrent creates
MaxMastersEntities == 1  \* documents created per hierarchy collection, sequential run

\* the _ids the store gives to new documents, in order
NewIds ==
    [districts |-> <<"D3", "D4", "D5">>, talukas |-> <<"T3", "T4", "T5">>,
     hoblis |-> <<"H3", "H4", "H5">>, villages |-> <<"V3", "V4", "V5">>]

Seeds ==
    [districts |-> SeedDistricts, talukas |-> SeedTalukas,
     hoblis |-> SeedHoblis, villages |-> SeedVillages, cadCenters |-> SeedCadCenters]

FreshId(coll) ==
    LET pool == NewIds[coll] IN
    pool[CHOOSE i \in 1..Len(pool) :
            /\ pool[i] \notin DOMAIN masters[coll]
            /\ \A j \in 1..(i - 1) : pool[j] \in DOMAIN masters[coll]]

HasRoom(coll, bound) ==
    Cardinality(DOMAIN masters[coll]) < Cardinality(DOMAIN Seeds[coll]) + bound

Insert(coll, doc) == [masters EXCEPT ![coll] = (FreshId(coll) :> doc) @@ @]

\* The unique indexes: District code; Taluka (districtId, code); Hobli
\* (talukaId, code); Village (hobliId, code).  self is the document being
\* updated (NULL for an insert).
DistrictDuplicate(code, self) ==
    \E d \in DOMAIN Districts : d # self /\ Districts[d].code = code

\* no unique index on Taluka (districtId, code)
TalukaDuplicate_NoIndex(districtId, code, self) == FALSE

TalukaDuplicate(districtId, code, self) ==
    \E t \in DOMAIN Talukas :
        t # self /\ Talukas[t].districtId = districtId /\ Talukas[t].code = code

HobliDuplicate(talukaId, code, self) ==
    \E h \in DOMAIN Hoblis :
        h # self /\ Hoblis[h].talukaId = talukaId /\ Hoblis[h].code = code

VillageDuplicate(hobliId, code, self) ==
    \E v \in DOMAIN Villages :
        v # self /\ Villages[v].hobliId = hobliId /\ Villages[v].code = code

\* district.service.js create: one await, doc.save(); E11000 becomes Conflict
DistrictCreate(p, payload, bound) ==
    /\ procs[p] = Idle
    /\ IF DistrictDuplicate(payload.code, NULL)
       THEN /\ response' = Err("districtCreate", "Conflict", "DUPLICATE_CODE")
            /\ UNCHANGED masters
       ELSE /\ HasRoom("districts", bound)
            /\ masters' = Insert("districts", [code |-> payload.code, name |-> payload.name])
            /\ response' = Ok("districtCreate")
    /\ UNCHANGED <<uploads, assignments, procs, year, db, accounts>>

\* districtService.findByName: findOne over the documents of that name
DistrictsNamed(name) == {d \in DOMAIN Districts : Districts[d].name = name}

\* talukaService.findByName(name, districtId)
TalukasNamed(name, districtId) ==
    {t \in DOMAIN Talukas : Talukas[t].name = name /\ Talukas[t].districtId = districtId}

\* taluka.service.js create lines 13-20: the validator hands districtName and
\* no districtId, so the district is looked up by name
TalukaCreateFind(p, payload) ==
    /\ procs[p] = Idle
    /\ IF DistrictsNamed(payload.districtName) = {}
       THEN /\ response' = Err("talukaCreate", "NotFound", "DISTRICT_NOT_FOUND")
            /\ UNCHANGED procs
       ELSE /\ \E d \in DistrictsNamed(payload.districtName) :
                   procs' = [procs EXCEPT ![p] =
                       [op |-> "talukaCreate", pc |-> "exists", payload |-> payload, districtId |-> d]]
            /\ response' = NoResponse
    /\ UNCHANGED <<uploads, assignments, year, masters, db, accounts>>

\* lines 26-29: districtService.exists(districtId)
TalukaCreateExists(p) ==
    /\ procs[p].op = "talukaCreate" /\ procs[p].pc = "exists"
    /\ IF procs[p].districtId \notin DOMAIN Districts
       THEN /\ response' = Err("talukaCreate", "NotFound", "DISTRICT_NOT_FOUND")
            /\ procs' = [procs EXCEPT ![p] = Idle]
       ELSE /\ response' = NoResponse
            /\ procs' = [procs EXCEPT ![p].pc = "save"]
    /\ UNCHANGED <<uploads, assignments, year, masters, db, accounts>>

\* lines 31-43: doc.save(); E11000 becomes Conflict
TalukaCreateSave(p, bound) ==
    /\ procs[p].op = "talukaCreate" /\ procs[p].pc = "save"
    /\ IF TalukaDuplicate(procs[p].districtId, procs[p].payload.code, NULL)
       THEN /\ response' = Err("talukaCreate", "Conflict", "DUPLICATE_CODE")
            /\ UNCHANGED masters
       ELSE /\ HasRoom("talukas", bound)
            /\ masters' = Insert("talukas",
                   [districtId |-> procs[p].districtId, code |-> procs[p].payload.code,
                    name |-> procs[p].payload.name])
            /\ response' = Ok("talukaCreate")
    /\ procs' = [procs EXCEPT ![p] = Idle]
    /\ UNCHANGED <<uploads, assignments, year, db, accounts>>

\* hobli.service.js create lines 13-19 and 35-37: which await comes first
HobliCreateBegin(p, payload) ==
    /\ procs[p] = Idle
    /\ IF payload.talukaId = NULL /\ payload.talukaName # NULL
       THEN IF payload.districtName = NULL /\ payload.districtId = NULL
            THEN /\ response' = Err("hobliCreate", "NotFound", "DISTRICT_REQUIRED")
                 /\ UNCHANGED procs
            ELSE /\ response' = NoResponse
                 /\ procs' = [procs EXCEPT ![p] =
                        [op |-> "hobliCreate",
                         pc |-> IF payload.districtId = NULL THEN "district" ELSE "taluka",
                         payload |-> payload, talukaId |-> NULL, districtId |-> payload.districtId]]
       ELSE IF payload.talukaId = NULL
            THEN /\ response' = Err("hobliCreate", "NotFound", "TALUKA_NOT_FOUND")
                 /\ UNCHANGED procs
            ELSE /\ response' = NoResponse
                 /\ procs' = [procs EXCEPT ![p] =
                        [op |-> "hobliCreate", pc |-> "get", payload |-> payload,
                         talukaId |-> payload.talukaId, districtId |-> payload.districtId]]
    /\ UNCHANGED <<uploads, assignments, year, masters, db, accounts>>

\* lines 20-26: districtService.findByName(payload.districtName)
HobliCreateDistrict(p) ==
    /\ procs[p].op = "hobliCreate" /\ procs[p].pc = "district"
    /\ IF DistrictsNamed(procs[p].payload.districtName) = {}
       THEN /\ response' = Err("hobliCreate", "NotFound", "DISTRICT_NOT_FOUND")
            /\ procs' = [procs EXCEPT ![p] = Idle]
       ELSE /\ \E d \in DistrictsNamed(procs[p].payload.districtName) :
                   procs' = [procs EXCEPT ![p].pc = "taluka", ![p].districtId = d]
            /\ response' = NoResponse
    /\ UNCHANGED <<uploads, assignments, year, masters, db, accounts>>

\* lines 27-33: talukaService.findByName(payload.talukaName, districtId)
HobliCreateTaluka(p) ==
    /\ procs[p].op = "hobliCreate" /\ procs[p].pc = "taluka"
    /\ IF TalukasNamed(procs[p].payload.talukaName, procs[p].districtId) = {}
       THEN /\ response' = Err("hobliCreate", "NotFound", "TALUKA_NOT_FOUND")
            /\ procs' = [procs EXCEPT ![p] = Idle]
       ELSE /\ \E t \in TalukasNamed(procs[p].payload.talukaName, procs[p].districtId) :
                   procs' = [procs EXCEPT ![p].pc = "get", ![p].talukaId = t]
            /\ response' = NoResponse
    /\ UNCHANGED <<uploads, assignments, year, masters, db, accounts>>

\* lines 39-62: talukaService.getById(talukaId), then the district the call
\* carries (its districtId, else the one found by name in the name-lookup
\* branch, else the taluka's own) against the taluka's district
HobliCreateError(talukaId, districtId) ==
    IF talukaId \notin DOMAIN Talukas THEN <<"NotFound", "TALUKA_NOT_FOUND">>
    ELSE IF Talukas[talukaId].districtId \notin DOMAIN Districts
         THEN <<"BadRequest", "DISTRICT_REQUIRED">>
    ELSE IF (IF districtId = NULL THEN Talukas[talukaId].districtId ELSE districtId)
                # Talukas[talukaId].districtId
         THEN <<"BadRequest", "TALUKA_DISTRICT_MISMATCH">>
    ELSE <<"OK", NULL>>

HobliCreateGet(p) ==
    /\ procs[p].op = "hobliCreate" /\ procs[p].pc = "get"
    /\ LET e == HobliCreateError(procs[p].talukaId, procs[p].districtId) IN
       IF e[1] # "OK"
       THEN /\ response' = Err("hobliCreate", e[1], e[2])
            /\ procs' = [procs EXCEPT ![p] = Idle]
       ELSE /\ response' = NoResponse
            /\ procs' = [procs EXCEPT ![p].pc = "save"]
    /\ UNCHANGED <<uploads, assignments, year, masters, db, accounts>>

\* lines 64-84: new Hobli({...}) keeps talukaId, code, name, status; doc.save()
HobliCreateSave(p, bound) ==
    /\ procs[p].op = "hobliCreate" /\ procs[p].pc = "save"
    /\ IF HobliDuplicate(procs[p].talukaId, procs[p].payload.code, NULL)
       THEN /\ response' = Err("hobliCreate", "Conflict", "DUPLICATE_CODE")
            /\ UNCHANGED masters
       ELSE /\ HasRoom("hoblis", bound)
            /\ masters' = Insert("hoblis",
                   [talukaId |-> procs[p].talukaId, code |-> procs[p].payload.code])
            /\ response' = Ok("hobliCreate")
    /\ procs' = [procs EXCEPT ![p] = Idle]
    /\ UNCHANGED <<uploads, assignments, year, db, accounts>>

\* village service create (taluka.service.js lines 288-332): the three
\* getById calls of Promise.all, the first rejection wins; then the pointer
\* checks.  hobli.districtId is absent, so the third check is skipped.
VillageCreateErrors(payload) ==
    LET missing ==
            (IF payload.districtId \in DOMAIN Districts THEN {} ELSE {<<"NotFound", "DISTRICT_NOT_FOUND">>})
            \cup (IF payload.talukaId \in DOMAIN Talukas THEN {} ELSE {<<"NotFound", "TALUKA_NOT_FOUND">>})
            \cup (IF payload.hobliId \in DOMAIN Hoblis THEN {} ELSE {<<"NotFound", "HOBLI_NOT_FOUND">>})
    IN  IF missing # {} THEN missing
        ELSE IF Talukas[payload.talukaId].districtId # payload.districtId
             THEN {<<"BadRequest", "TALUKA_DISTRICT_MISMATCH">>}
        ELSE IF Hoblis[payload.hobliId].talukaId # payload.talukaId
             THEN {<<"BadRequest", "HOBLI_TALUKA_MISMATCH">>}
        ELSE {}

VillageCreateRead(p, payload) ==
    /\ procs[p] = Idle
    /\ IF VillageCreateErrors(payload) # {}
       THEN /\ \E e \in VillageCreateErrors(payload) : response' = Err("villageCreate", e[1], e[2])
            /\ UNCHANGED procs
       ELSE /\ response' = NoResponse
            /\ procs' = [procs EXCEPT ![p] = [op |-> "villageCreate", pc |-> "save", payload |-> payload]]
    /\ UNCHANGED <<uploads, assignments, year, masters, db, accounts>>

\* lines 334-354: new Village({...}) keeps hobliId, code, name, status; doc.save()
VillageCreateSave(p, bound) ==
    /\ procs[p].op = "villageCreate" /\ procs[p].pc = "save"
    /\ IF VillageDuplicate(procs[p].payload.hobliId, procs[p].payload.code, NULL)
       THEN /\ response' = Err("villageCreate", "Conflict", "DUPLICATE_CODE")
            /\ UNCHANGED masters
       ELSE /\ HasRoom("villages", bound)
            /\ masters' = Insert("villages",
                   [hobliId |-> procs[p].payload.hobliId, code |-> procs[p].payload.code])
            /\ response' = Ok("villageCreate")
    /\ procs' = [procs EXCEPT ![p] = Idle]
    /\ UNCHANGED <<uploads, assignments, year, db, accounts>>

\* update of a hierarchy document: findByIdAndUpdate(id, {$set: updates}).
\* The validators let through code, name and status only.  A code that the
\* unique index rejects surfaces as the driver's error, which asyncHandler
\* reports as an internal DB_ERROR.
MasterUpdate(p, op, coll, id, updates, notFound, duplicate) ==
    /\ procs[p] = Idle
    /\ IF id \notin DOMAIN masters[coll]
       THEN /\ response' = Err(op, "NotFound", notFound)
            /\ UNCHANGED masters
       ELSE IF duplicate
       THEN /\ response' = Err(op, "Internal", "DB_ERROR")
            /\ UNCHANGED masters
       ELSE /\ masters' = [masters EXCEPT ![coll][id].code = updates.code]
            /\ response' = Ok(op)
    /\ UNCHANGED <<uploads, assignments, procs, year, db, accounts>>

DistrictUpdate(p, id, updates) ==
    MasterUpdate(p, "districtUpdate", "districts", id, updates, "DISTRICT_NOT_FOUND",
                 DistrictDuplicate(updates.code, id))

TalukaUpdate(p, id, updates) ==
    MasterUpdate(p, "talukaUpdate", "talukas", id, updates, "TALUKA_NOT_FOUND",
                 id \in DOMAIN Talukas /\ TalukaDuplicate(Talukas[id].districtId, updates.code, id))

HobliUpdate(p, id, updates) ==
    MasterUpdate(p, "hobliUpdate", "hoblis", id, updates, "HOBLI_NOT_FOUND",
                 id \in DOMAIN Hoblis /\ HobliDuplicate(Hoblis[id].talukaId, updates.code, id))

VillageUpdate(p, id, updates) ==
    MasterUpdate(p, "villageUpdate", "villages", id, updates, "VILLAGE_NOT_FOUND",
                 id \in DOMAIN Villages /\ VillageDuplicate(Villages[id].hobliId, updates.code, id))

(***************************************************************************)
(* CAD center service.  remove is a soft delete: it stamps deletedAt; no    *)
(* operation of the service deletes a document or clears the stamp.        *)
(***************************************************************************)
\* getById: findOne({ _id: id, deletedAt: null })
CadCenterGetById(p, id) ==
    /\ procs[p] = Idle
    /\ response' = IF FindLiveCenter(id) THEN OkDoc("cadCenterGet", id)
                   ELSE Err("cadCenterGet", "NotFound", "CAD_CENTER_NOT_FOUND")
    /\ UNCHANGED <<uploads, assignments, procs, year, masters, db, accounts>>

\* list without filters or pagination: find({ deletedAt: null })
CadCenterList(p) ==
    /\ procs[p] = Idle
    /\ LET data == {c \in DOMAIN CadCenters : FindLiveCenter(c)} IN
       response' = OkPage("cadCenterList", data, Cardinality(data))
    /\ UNCHANGED <<uploads, assignments, procs, year, masters, db, accounts>>

\* update: the findOne that guards the call
CadCenterUpdateFind(p, id, updates) ==
    /\ procs[p] = Idle
    /\ IF ~FindLiveCenter(id)
       THEN /\ response' = Err("cadCenterUpdate", "NotFound", "CAD_CENTER_NOT_FOUND")
            /\ UNCHANGED procs
       ELSE /\ procs' = [procs EXCEPT ![p] =
                   [op |-> "cadCenterUpdate", pc |-> "update", id |-> id, updates |-> updates]]
            /\ response' = NoResponse
    /\ UNCHANGED <<uploads, assignments, year, masters, db, accounts>>

\* update: findByIdAndUpdate(id, { $set: updates }), matched by _id alone
CadCenterUpdateSave(p) ==
    /\ procs[p].op = "cadCenterUpdate" /\ procs[p].pc = "update"
    /\ masters' = [masters EXCEPT !.cadCenters[procs[p].id] = ApplySet(@, procs[p].updates)]
    /\ response' = OkDoc("cadCenterUpdate", procs[p].id)
    /\ procs' = [procs EXCEPT ![p] = Idle]
    /\ UNCHANGED <<uploads, assignments, year, db, accounts>>

\* remove: the findOne that guards the call
CadCenterRemoveFind(p, id) ==
    /\ procs[p] = Idle
    /\ IF ~FindLiveCenter(id)
       THEN /\ response' = Err("cadCenterRemove", "NotFound", "CAD_CENTER_NOT_FOUND")
            /\ UNCHANGED procs
       ELSE /\ procs' = [procs EXCEPT ![p] = [op |-> "cadCenterRemove", pc |-> "save", id |-> id]]
            /\ response' = NoResponse
    /\ UNCHANGED <<uploads, assignments, year, masters, db, accounts>>

\* remove: center.deletedAt = new Date(); center.save() sets the one path
CadCenterRemoveSave(p) ==
    /\ procs[p].op = "cadCenterRemove" /\ procs[p].pc = "save"
    /\ masters' = [masters EXCEPT !.cadCenters[procs[p].id] = ApplySet(@, [deletedAt |-> "date"])]
    /\ response' = Ok("cadCenterRemove")
    /\ procs' = [procs EXCEPT ![p] = Idle]
    /\ UNCHANGED <<uploads, assignments, year, db, accounts>>

(***************************************************************************)
(* Database connection of the auth handler module.  dbConnected and        *)
(* dbConnectionPromise are module variables that live as long as the       *)
(* process; readyState is mongoose.connection.readyState (0 disconnected,  *)
(* 1 connected, 2 connecting).  A continuation of a settled promise runs   *)
(* before the next event is taken up.                                      *)
(***************************************************************************)
Draining == \E q \in Procs : procs[q].op = "ensureDb" /\ procs[q].pc = "resume"

\* a handler after `await ensureDb()`: the invocation goes on to its service
Service(call) == [op |-> call.handler, pc |-> "service", user |-> call.user, arg |-> call.arg]

\* ensureDb up to the first await that has to wait; connectDB returns at once
\* when readyState is 1, else it calls mongoose.connect
EnsureDb(p, call) ==
    /\ procs[p] = Idle /\ ~Draining
    /\ response' = NoResponse
    /\ IF db.dbConnected /\ db.readyState = 1
       THEN /\ procs' = [procs EXCEPT ![p] = Service(call)]
            /\ UNCHANGED db
       ELSE IF db.dbConnectionPromise = "resolved"
       THEN /\ procs' = [procs EXCEPT ![p] = Service(call)]
            /\ UNCHANGED db
       ELSE IF db.dbConnectionPromise = "pending"
       THEN /\ procs' = [procs EXCEPT ![p] = [op |-> "ensureDb", pc |-> "await", call |-> call]]
            /\ UNCHANGED db
       ELSE IF db.readyState = 1
       THEN /\ db' = [db EXCEPT !.dbConnected = TRUE, !.dbConnectionPromise = "resolved"]
            /\ procs' = [procs EXCEPT ![p] = Service(call)]
       ELSE /\ db' = [db EXCEPT !.readyState = 2, !.dbConnectionPromise = "pending"]
            /\ procs' = [procs EXCEPT ![p] = [op |-> "ensureDb", pc |-> "connect", call |-> call]]
    /\ UNCHANGED <<uploads, assignments, year, masters, accounts>>

\* mongoose.connect and the ping settle: "ok"; "ping", connected but the ping
\* fails (a plain Error); "selection", no server reached.  On failure the
\* promise variable is reset; on success it keeps the resolved promise.
\* Calls that await the promise resume with its outcome.
ConnectDB(p, outcome) ==
    /\ procs[p].op = "ensureDb" /\ procs[p].pc = "connect"
    /\ LET code == IF outcome = "ok" THEN NULL
                   ELSE IF outcome = "ping" THEN "UNEXPECTED_ERROR" ELSE "DB_CONNECTION_TIMEOUT" IN
       /\ db' = [readyState |-> IF outcome = "selection" THEN 0 ELSE 1,
                 dbConnected |-> db.dbConnected \/ outcome = "ok",
                 dbConnectionPromise |-> IF outcome = "ok" THEN "resolved" ELSE NULL]
       /\ procs' = [q \in Procs |->
                       IF q = p THEN (IF outcome = "ok" THEN Service(procs[p].call) ELSE Idle)
                       ELSE IF procs[q].op = "ensureDb" /\ procs[q].pc = "await"
                       THEN [op |-> "ensureDb", pc |-> "resume", call |-> procs[q].call, code |-> code]
                       ELSE procs[q]]
       /\ response' = IF outcome = "ok" THEN NoResponse ELSE Err("ensureDb", "Internal", code)
    /\ UNCHANGED <<uploads, assignments, year, masters, accounts>>

\* ensureDb after `await dbConnectionPromise` of a connection another call started
EnsureDbResume(p) ==
    /\ procs[p].op = "ensureDb" /\ procs[p].pc = "resume"
    /\ IF procs[p].code = NULL
       THEN /\ procs' = [procs EXCEPT ![p] = Service(procs[p].call)]
            /\ response' = NoResponse
       ELSE /\ procs' = [procs EXCEPT ![p] = Idle]
            /\ response' = Err("ensureDb", "Internal", procs[p].code)
    /\ UNCHANGED <<uploads, assignments, year, masters, db, accounts>>

\* the connection drops ('disconnected') or the driver restores it
\* ('connected'); the handlers registered by connectDB only log
ConnectionEvent(readyState) ==
    /\ ~Draining
    /\ db.dbConnectionPromise # "pending"
    /\ db.readyState # readyState
    /\ readyState = 1 => db.dbConnected
    /\ db' = [db EXCEPT !.readyState = readyState]
    /\ response' = NoResponse
    /\ UNCHANGED <<uploads, assignments, procs, year, masters, accounts>>

\* a query issued while the connection is down is buffered by mongoose and
\* fails when the buffer times out (asyncHandler: DB_CONNECTION_TIMEOUT)
ServiceTimeout(p) ==
    /\ procs[p].op \notin {"idle", "ensureDb"} /\ procs[p].pc = "service"
    /\ db.readyState # 1
    /\ response' = Err(procs[p].op, "Internal", "DB_CONNECTION_TIMEOUT")
    /\ procs' = [procs EXCEPT ![p] = Idle]
    /\ UNCHANGED <<uploads, assignments, year, masters, db, accounts>>

(***************************************************************************)
(* User accounts: block / unblock by an administrator, the surveyor's      *)
(* OTP registration, login, and the authentication of a request.  A        *)
(* service runs once its handler's ensureDb has returned and the           *)
(* connection is up; its queries and saves are taken as one step.          *)
(***************************************************************************)
InService(p, handler) ==
    procs[p].op = handler /\ procs[p].pc = "service" /\ db.readyState = 1

\* the step of a service that ends the call with result and accounts as given
Finish(p, result, stored) ==
    /\ response' = result
    /\ accounts' = stored
    /\ procs' = [procs EXCEPT ![p] = Idle]
    /\ UNCHANGED <<uploads, assignments, year, masters, db>>

\* blockUser by administrator a1
BlockUser(p) ==
    /\ InService(p, "blockUser")
    /\ LET u == procs[p].user IN
       IF u = "a1" THEN Finish(p, Err("blockUser", "BadRequest", NULL), accounts)
       ELSE IF u \notin DOMAIN accounts THEN Finish(p, Err("blockUser", "NotFound", NULL), accounts)
       ELSE Finish(p, Ok("blockUser"), [accounts EXCEPT ![u].status = USER_STATUS.DISABLED])

\* unblockUser by administrator a1; an administrator manages CAD and surveyor users only
UnblockUser(p) ==
    /\ InService(p, "unblockUser")
    /\ LET u == procs[p].user IN
       IF u = "a1" THEN Finish(p, Err("unblockUser", "Forbidden", NULL), accounts)
       ELSE IF u \notin DOMAIN accounts THEN Finish(p, Err("unblockUser", "NotFound", NULL), accounts)
       ELSE Finish(p, Ok("unblockUser"), [accounts EXCEPT ![u].status = USER_STATUS.ACTIVE])

\* surveyorSendOtp for a stored surveyor: the name is saved, then issueOtp
\* stores a fresh code and clears otpVerified; the status is not read
SurveyorSendOtp(p) ==
    /\ InService(p, "surveyorSendOtp")
    /\ Finish(p, Ok("surveyorSendOtp"),
              [accounts EXCEPT ![procs[p].user].otpCode = "otp", ![procs[p].user].otpVerified = FALSE])

\* surveyorVerifyOtp: otpService.verifyOtp, then a status other than ACTIVE
\* is set to ACTIVE and saved
SurveyorVerifyOtp(p) ==
    /\ InService(p, "surveyorVerifyOtp")
    /\ LET u == procs[p].user IN
       IF accounts[u].otpCode = NULL \/ procs[p].arg # accounts[u].otpCode
       THEN Finish(p, Err("surveyorVerifyOtp", "Unauthorized", NULL), accounts)
       ELSE Finish(p, Ok("surveyorVerifyOtp"),
                   [accounts EXCEPT ![u].otpVerified = TRUE, ![u].otpCode = NULL,
                                    ![u].status = USER_STATUS.ACTIVE])

\* surveyorCompleteRegistration: sets the password once the OTP is verified
SurveyorCompleteRegistration(p) ==
    /\ InService(p, "surveyorCompleteRegistration")
    /\ LET u == procs[p].user IN
       IF ~accounts[u].otpVerified
       THEN Finish(p, Err("surveyorCompleteRegistration", "Forbidden", NULL), accounts)
       ELSE IF accounts[u].password
       THEN Finish(p, Err("surveyorCompleteRegistration", "Conflict", NULL), accounts)
       ELSE Finish(p, Ok("surveyorCompleteRegistration"), [accounts EXCEPT ![u].password = TRUE])

\* login by phone and password: the status is not read
Login(p) ==
    /\ InService(p, "login")
    /\ LET u == procs[p].user IN
       IF ~accounts[u].password THEN Finish(p, Err("login", "BadRequest", NULL), accounts)
       ELSE IF procs[p].arg # "pw" THEN Finish(p, Err("login", "Unauthorized", NULL), accounts)
       ELSE Finish(p, Ok("login"), accounts)

\* authenticate, run by authorize for a request that carries the user's token
Authenticate(p) ==
    /\ InService(p, "authenticate")
    /\ IF accounts[procs[p].user].status # USER_STATUS.ACTIVE
       THEN Finish(p, Err("authenticate", "Unauthorized", NULL), accounts)
       ELSE Finish(p, Ok("authenticate"), accounts)

\* the calendar year advances
NewYear ==
    /\ year < MaxYear
    /\ year' = year + 1
    /\ response' = NoResponse
    /\ UNCHANGED <<uploads, assignments, procs, masters, db, accounts>>

Init ==
    /\ uploads = <<>>
    /\ assignments = <<>>
    /\ procs = [p \in Procs |-> Idle]
    /\ response = NoResponse
    /\ year = StartYear
    /\ masters = Seeds
    /\ db = [readyState |-> 0, dbConnected |-> FALSE, dbConnectionPromise |-> NULL]
    /\ accounts = SeedAccounts

(***************************************************************************)
(* Inputs                                                                  *)
(***************************************************************************)
AssignPayloads(uploadIds, centerIds) ==
    [surveyorSketchUploadId : uploadIds, cadCenterId : centerIds]

UpdateInputs == [status : AssignmentStatuses \cup {NULL}]

ResponseActions == {CAD_ASSIGNMENT_RESPONSE_ACTION.ACCEPT, CAD_ASSIGNMENT_RESPONSE_ACTION.REJECT}

AssignmentIds == 1..MaxAssignments

(***************************************************************************)
(* Spec: one caller issuing one call at a time, every input.               *)
(***************************************************************************)
Caller == CHOOSE p \in Procs : \A q \in Procs : p <= q

UploadBegin == \E actor \in {"s1", "a1"}, payload \in Payloads : UploadCreateBegin(Caller, actor, payload)
UploadSave == UploadInsert(Caller, MaxUploads)
CreateBegin == \E payload \in AssignPayloads(1..MaxUploads, CadCenterIds) : AssignCreateBegin(Caller, payload)
UpdateStart == \E a \in AssignmentIds, u \in UpdateInputs : UpdateBegin(Caller, a, u)
RespondStart == \E a \in AssignmentIds, u \in CadUsers, act \in ResponseActions : RespondBegin(Caller, a, u, act)

Next ==
    \/ UploadBegin
    \/ UploadGenerate(Caller)
    \/ UploadSave
    \/ CreateBegin
    \/ AssignCreateCheck(Caller)
    \/ AssignCreateSave(Caller)
    \/ AssignCreateSync(Caller)
    \/ UpdateStart
    \/ UpdateSave(Caller)
    \/ UpdateSync(Caller)
    \/ RespondStart
    \/ RespondSave(Caller)
    \/ RespondSync(Caller)

Spec == Init /\ [][Next]_vars

(***************************************************************************)
(* SpecRace: concurrent assignment calls on one sketch request.            *)
(***************************************************************************)
RaceUploadBegin(p) == UploadCreateBegin(p, "s1", [district |-> "D1", taluka |-> "T1", hobli |-> "H1", village |-> "V1",
                                      documents |-> OneDocument])
RaceUploadSave(p) == UploadInsert(p, MaxRaceUploads)
RaceCreateBegin(p) == \E payload \in AssignPayloads(1..MaxRaceUploads, {"C1"}) : AssignCreateBegin(p, payload)
RaceUpdateStart(p) == \E a \in AssignmentIds, u \in UpdateInputs : UpdateBegin(p, a, u)
RaceRespondStart(p) == \E a \in AssignmentIds, act \in ResponseActions : RespondBegin(p, a, "o1", act)

NextRace ==
    \E p \in Procs :
        \/ RaceUploadBegin(p)
        \/ UploadGenerate(p)
        \/ RaceUploadSave(p)
        \/ RaceCreateBegin(p)
        \/ AssignCreateCheck(p)
        \/ AssignCreateSave(p)
        \/ AssignCreateSync(p)
        \/ RaceUpdateStart(p)
        \/ UpdateSave(p)
        \/ UpdateSync(p)
        \/ RaceRespondStart(p)
        \/ RespondSave(p)
        \/ RespondSync(p)

SpecRace == Init /\ [][NextRace]_vars

(***************************************************************************)
(* SpecSubmit: concurrent sketch-request submissions.                      *)
(***************************************************************************)
SubmitBegin(p) == \E payload \in ValidPayloads : UploadCreateBegin(p, "s1", payload)
SubmitSave(p) == UploadInsert(p, MaxSubmitUploads)

NextSubmit ==
    \E p \in Procs :
        \/ SubmitBegin(p)
        \/ UploadGenerate(p)
        \/ SubmitSave(p)

SpecSubmit == Init /\ [][NextSubmit]_vars

(***************************************************************************)
(* SpecSeq: a long run of submissions made one after another.              *)
(***************************************************************************)
SeqBegin == \E payload \in ValidPayloads : UploadCreateBegin(Caller, "s1", payload)
SeqGenerate == UploadGenerate(Caller)
SeqSave == UploadInsert(Caller, MaxSeqUploads)

NextSeq == SeqBegin \/ SeqGenerate \/ SeqSave \/ NewYear

SpecSeq == Init /\ [][NextSeq]_vars

(***************************************************************************)
(* SpecFrame: one caller, two sketch requests, assignments of center C1.   *)
(***************************************************************************)
FrameUploadBegin == \E payload \in ValidPayloads : UploadCreateBegin(Caller, "s1", payload)
FrameUploadGenerate == UploadGenerate(Caller)
FrameUploadSave == UploadInsert(Caller, MaxFrameUploads)
FrameCreateBegin == \E payload \in AssignPayloads(1..MaxFrameUploads, {"C1"}) : AssignCreateBegin(Caller, payload)
FrameUpdateStart == \E a \in AssignmentIds, u \in UpdateInputs : UpdateBegin(Caller, a, u)
FrameRespondStart == \E a \in AssignmentIds, act \in ResponseActions : RespondBegin(Caller, a, "o1", act)

NextFrame ==
    \/ FrameUploadBegin
    \/ FrameUploadGenerate
    \/ FrameUploadSave
    \/ FrameCreateBegin
    \/ AssignCreateCheck(Caller)
    \/ AssignCreateSave(Caller)
    \/ AssignCreateSync(Caller)
    \/ FrameUpdateStart
    \/ UpdateSave(Caller)
    \/ UpdateSync(Caller)
    \/ FrameRespondStart
    \/ RespondSave(Caller)
    \/ RespondSync(Caller)

SpecFrame == Init /\ [][NextFrame]_vars

(***************************************************************************)
(* SpecValidate: submissions made one after another, every payload and     *)
(* both kinds of actor.                                                    *)
(***************************************************************************)
ValidateBegin == \E actor \in {"s1", "a1"}, payload \in Payloads : UploadCreateBegin(Caller, actor, payload)
ValidateGenerate == UploadGenerate(Caller)
ValidateSave == UploadInsert(Caller, MaxValidateUploads)

NextValidate == ValidateBegin \/ ValidateGenerate \/ ValidateSave

SpecValidate == Init /\ [][NextValidate]_vars

(***************************************************************************)
(* SpecSameKey: two concurrent callers, each creating hierarchy documents  *)
(* with one fixed (parent, code) per level; the hobli is named by id or by *)
(* names.                                                                  *)
(***************************************************************************)
SameKeyDistrict == [code |-> "TN", name |-> "east"]
SameKeyTaluka == [districtName |-> "north", code |-> "X", name |-> "mid"]
SameKeyHoblis ==
    {[talukaId |-> "T1", talukaName |-> NULL, districtId |-> NULL, districtName |-> NULL, code |-> "x"],
     [talukaId |-> NULL, talukaName |-> "upper", districtId |-> NULL, districtName |-> "north", code |-> "x"]}
SameKeyVillage == [districtId |-> "D1", talukaId |-> "T1", hobliId |-> "H1", code |-> "x"]

NextSameKey ==
    \E p \in Procs :
        \/ DistrictCreate(p, SameKeyDistrict, MaxSameKeyEntities)
        \/ TalukaCreateFind(p, SameKeyTaluka)
        \/ TalukaCreateExists(p)
        \/ TalukaCreateSave(p, MaxSameKeyEntities)
        \/ \E payload \in SameKeyHoblis : HobliCreateBegin(p, payload)
        \/ HobliCreateDistrict(p)
        \/ HobliCreateTaluka(p)
        \/ HobliCreateGet(p)
        \/ HobliCreateSave(p, MaxSameKeyEntities)
        \/ VillageCreateRead(p, SameKeyVillage)
        \/ VillageCreateSave(p, MaxSameKeyEntities)

SpecSameKey == Init /\ [][NextSameKey]_vars

(***************************************************************************)
(* SpecMasters: hierarchy creates and updates made one after another.      *)
(***************************************************************************)
HobliPayloads ==
    {pl \in [talukaId : {NULL, "T1", "T9"}, talukaName : {NULL, "upper"},
             districtId : {NULL, "D1", "D2"}, districtName : {NULL, "north", "south"},
             code : {"x"}] :
        pl.talukaId # NULL \/ pl.talukaName # NULL}

VillagePayloads ==
    [districtId : {"D1", "D2"}, talukaId : {"T1", "T2"}, hobliId : {"H1", "H2", "H9"}, code : {"x"}]

NextMasters ==
    \/ \E code \in {"KA", "TN"} :
           DistrictCreate(Caller, [code |-> code, name |-> "east"], MaxMastersEntities)
    \/ \E name \in {"north", "south", "west"} :
           TalukaCreateFind(Caller, [districtName |-> name, code |-> "X", name |-> "mid"])
    \/ TalukaCreateExists(Caller)
    \/ TalukaCreateSave(Caller, MaxMastersEntities)
    \/ \E payload \in HobliPayloads : HobliCreateBegin(Caller, payload)
    \/ HobliCreateDistrict(Caller)
    \/ HobliCreateTaluka(Caller)
    \/ HobliCreateGet(Caller)
    \/ HobliCreateSave(Caller, MaxMastersEntities)
    \/ \E payload \in VillagePayloads : VillageCreateRead(Caller, payload)
    \/ VillageCreateSave(Caller, MaxMastersEntities)
    \/ \E id \in {"D1", "D3", "D9"}, code \in {"KA", "TN"} : DistrictUpdate(Caller, id, [code |-> code])
    \/ \E id \in {"T1", "T3", "T9"}, code \in {"N", "X"} : TalukaUpdate(Caller, id, [code |-> code])
    \/ \E id \in {"H1", "H3", "H9"}, code \in {"h", "x"} : HobliUpdate(Caller, id, [code |-> code])
    \/ \E id \in {"V1", "V3", "V9"}, code \in {"v", "x"} : VillageUpdate(Caller, id, [code |-> code])

SpecMasters == Init /\ [][NextMasters]_vars

(***************************************************************************)
(* SpecAccess: one caller; requests of two surveyors, assignments to two   *)
(* centers, cancellations, and reads by surveyors, an administrator and an *)
(* operator.                                                               *)
(***************************************************************************)
ListOptions ==
    [surveyorId : {NULL, "s1", "s2"},
     status : {NULL, SURVEY_SKETCH_STATUS.PENDING, SURVEY_SKETCH_STATUS.ASSIGNED},
     cadCenterId : {NULL, "C1"}, page : {0, 2}, limit : {0, 1}]

Readers == {"s1", "s2", "a1", "o1"}

NextAccess ==
    \/ \E actor \in {"s1", "s2"} :
           UploadCreateBegin(Caller, actor, [district |-> "D1", taluka |-> "T1", hobli |-> "H1", village |-> "V1",
                                      documents |-> OneDocument])
    \/ UploadGenerate(Caller)
    \/ UploadInsert(Caller, MaxAccessUploads)
    \/ \E payload \in AssignPayloads(1..MaxAccessUploads, {"C1", "C2"}) : AssignCreateBegin(Caller, payload)
    \/ AssignCreateCheck(Caller)
    \/ AssignCreateSave(Caller)
    \/ AssignCreateSync(Caller)
    \/ \E actor \in Readers, u \in 1..(MaxAccessUploads + 1) : UploadGetBegin(Caller, actor, u)
    \/ UploadGetFind(Caller)
    \/ \E actor \in Readers, options \in ListOptions : UploadListBegin(Caller, actor, options)
    \/ UploadListAssignments(Caller)
    \/ UploadListFind(Caller)
    \/ \E a \in AssignmentIds :
           UpdateBegin(Caller, a, [status |-> SURVEY_SKETCH_ASSIGNMENT_STATUS.CANCELLED])
    \/ UpdateSave(Caller)
    \/ UpdateSync(Caller)

SpecAccess == Init /\ [][NextAccess]_vars

(***************************************************************************)
(* SpecStop: the calls of SpecFrame, where a call may also end between its *)
(* two writes.                                                             *)
(***************************************************************************)
NextStop == NextFrame \/ Stop(Caller)

SpecStop == Init /\ [][NextStop]_vars

(***************************************************************************)
(* SpecRespond: one caller submits a request and assigns it to center C1;  *)
(* operators of C1 respond to the assignments in concurrent invocations.   *)
(***************************************************************************)
NextRespond ==
    \/ \E payload \in ValidPayloads : UploadCreateBegin(Caller, "s1", payload)
    \/ UploadGenerate(Caller)
    \/ UploadInsert(Caller, MaxRespondUploads)
    \/ \E payload \in AssignPayloads(1..MaxRespondUploads, {"C1"}) : AssignCreateBegin(Caller, payload)
    \/ AssignCreateCheck(Caller)
    \/ AssignCreateSave(Caller)
    \/ AssignCreateSync(Caller)
    \/ \E p \in Procs :
          \/ \E a \in AssignmentIds, act \in ResponseActions : RespondBegin(p, a, "o1", act)
          \/ RespondSave(p)
          \/ RespondSync(p)

SpecRespond == Init /\ [][NextRespond]_vars

(***************************************************************************)
(* SpecDb: invocations of the auth handlers (block, unblock, the OTP       *)
(* registration, login, an authenticated request): each enters ensureDb    *)
(* and then its service, while the connection comes and goes.              *)
(***************************************************************************)
AuthCalls ==
    [handler : {"blockUser", "unblockUser"}, user : {"s1", "s2", "a1", "u9"}, arg : {NULL}]
    \cup [handler : {"surveyorSendOtp", "surveyorCompleteRegistration", "authenticate"},
          user : {"s1", "s2"}, arg : {NULL}]
    \cup [handler : {"surveyorVerifyOtp"}, user : {"s1", "s2"}, arg : {"otp", "bad"}]
    \cup [handler : {"login"}, user : {"s1", "s2"}, arg : {"pw", "bad"}]

NextDb ==
    \/ \E p \in Procs :
          \/ \E call \in AuthCalls : EnsureDb(p, call)
          \/ \E outcome \in {"ok", "ping", "selection"} : ConnectDB(p, outcome)
          \/ EnsureDbResume(p)
          \/ ServiceTimeout(p)
          \/ BlockUser(p)
          \/ UnblockUser(p)
          \/ SurveyorSendOtp(p)
          \/ SurveyorVerifyOtp(p)
          \/ SurveyorCompleteRegistration(p)
          \/ Login(p)
          \/ Authenticate(p)
    \/ \E readyState \in {0, 1} : ConnectionEvent(readyState)

SpecDb == Init /\ [][NextDb]_vars

(***************************************************************************)
(* SpecCenters: two administrators work on the CAD centers (get, list,     *)
(* update, remove) and assign the one sketch request a surveyor submits,   *)
(* in any interleaving.                                                    *)
(***************************************************************************)
NextCenters ==
    \/ \E payload \in ValidPayloads : UploadCreateBegin(Caller, "s1", payload)
    \/ UploadGenerate(Caller)
    \/ UploadInsert(Caller, MaxCenterUploads)
    \/ \E p \in Procs :
          \/ \E id \in CadCenterIds : CadCenterGetById(p, id)
          \/ CadCenterList(p)
          \/ \E id \in CadCenterIds, name \in {"n1", "n2"} : CadCenterUpdateFind(p, id, [name |-> name])
          \/ CadCenterUpdateSave(p)
          \/ \E id \in CadCenterIds : CadCenterRemoveFind(p, id)
          \/ CadCenterRemoveSave(p)
          \/ \E payload \in AssignPayloads(1..MaxCenterUploads, CadCenterIds) : AssignCreateBegin(p, payload)
          \/ AssignCreateCheck(p)
          \/ AssignCreateSave(p)
          \/ AssignCreateSync(p)

SpecCenters == Init /\ [][NextCenters]_vars

(***************************************************************************)
(* SpecDocuments: one surveyor submits request bodies through the handler, *)
(* one after another; a body gives each of the five document keys as       *)
(* absent, as a string or as an object, with an empty, blank or real url,  *)
(* and at most MaxBodyDocuments keys are present.                          *)
(***************************************************************************)
RawDocuments ==
    {[kind |-> "absent", url |-> ""]} \cup [kind : {"string", "object"}, url : {"", " ", "u"}]

\* the body that gives the keys of present as present says and leaves the rest out
BodyOf(present) ==
    LET At(k) == IF k \in DOMAIN present THEN present[k] ELSE [kind |-> "absent", url |-> ""] IN
    [district |-> "D1", taluka |-> "T1", hobli |-> "H1", village |-> "V1",
     moolaTippani |-> At("moolaTippani"), hissaTippani |-> At("hissaTippani"), atlas |-> At("atlas"),
     rrPakkabook |-> At("rrPakkabook"), kharabu |-> At("kharabu")]

Bodies ==
    {BodyOf(present) : present \in UNION {[keys -> RawDocuments] :
        keys \in {ks \in SUBSET SURVEY_SKETCH_DOCUMENT_KEYS : Cardinality(ks) <= MaxBodyDocuments}}}

NextDocuments ==
    \/ \E body \in Bodies : createSurveyorSketchUpload(Caller, "s1", body)
    \/ UploadGenerate(Caller)
    \/ UploadInsert(Caller, MaxDocumentUploads)

SpecDocuments == Init /\ [][NextDocuments]_vars

(***************************************************************************)
(* Properties                                                              *)
(***************************************************************************)
AllIdle == \A p \in Procs : procs[p] = Idle

InCall(p, op, pc) == procs[p].op = op /\ procs[p].pc = pc

Terminal == {SURVEY_SKETCH_ASSIGNMENT_STATUS.COMPLETED, SURVEY_SKETCH_ASSIGNMENT_STATUS.CANCELLED}

\* C1: every sketch request has at most one assignment whose status is not
\* CANCELLED, under any interleaving of create, respond and update calls.
C1_AtMostOneActive ==
    \A u \in DOMAIN uploads : Cardinality(NonCancelled(u)) <= 1

\* C2: whenever no call is in flight, a sketch request's stored status is
\* ASSIGNED if it has a non-cancelled assignment and PENDING if it has none.
C2_StatusAgrees ==
    AllIdle =>
        \A u \in DOMAIN uploads :
            uploads[u].status =
                IF NonCancelled(u) # {} THEN SURVEY_SKETCH_STATUS.ASSIGNED
                ELSE SURVEY_SKETCH_STATUS.PENDING

\* the requests persisted in u's scope no later than u
EarlierInScope(u) ==
    {j \in MatchingDocs(uploads[u].applicationId.prefix) : j <= u}

\* C3: with submissions made one after another, the i-th request created in a
\* scope carries number i, and a submission to a scope that holds k requests
\* generates number k + 1, also for k >= 10.
C3_SequentialNumbering ==
    /\ \A u \in DOMAIN uploads :
           uploads[u].applicationId.digits = NumberToString(Cardinality(EarlierInScope(u)))
    /\ InCall(Caller, "uploadCreate", "insert") =>
           procs[Caller].applicationId.digits =
               NumberToString(Cardinality(MatchingDocs(procs[Caller].applicationId.prefix)) + 1)

NoSharedApplicationId(ups) ==
    \A i, j \in DOMAIN ups : ups[i].applicationId = ups[j].applicationId => i = j

\* C4: no two persisted sketch requests share an applicationId, under any
\* interleaving of submissions; a submission whose generated applicationId is
\* already persisted fails at the insert, persists nothing and ends there
\* (the call is over: nothing generates a second id for it).
C4_UniqueApplicationId ==
    [][/\ NoSharedApplicationId(uploads')
       /\ \A p \in Procs :
              (/\ InCall(p, "uploadCreate", "insert")
               /\ ApplicationIdTaken(procs[p].applicationId)
               /\ procs'[p] # procs[p])
              => /\ uploads' = uploads
                 /\ procs'[p] = Idle
                 /\ response'.op = "uploadCreate" /\ response'.kind # "OK"]_vars

\* a submission has just failed on an applicationId that is already persisted
C4_Witness ==
    /\ response.code = "APPLICATION_ID_GENERATION_FAILED"
    /\ Len(uploads) >= 1
    /\ AllIdle

\* C5: with no other call in flight, an assignment create that names a live
\* center for a sketch request with a non-cancelled assignment ends in
\* Conflict and changes neither collection; for a request whose assignments
\* are all cancelled it goes through: one ASSIGNED assignment is appended and
\* the call returns OK.
C5_ConflictThenReassign ==
    [][/\ InCall(Caller, "assignCreate", "check") /\ procs' # procs =>
            IF NonCancelled(procs[Caller].payload.surveyorSketchUploadId) # {}
            THEN /\ response'.kind = "Conflict"
                 /\ assignments' = assignments
                 /\ uploads' = uploads
                 /\ procs'[Caller] = Idle
            ELSE InCall(Caller, "assignCreate", "save")'
       /\ InCall(Caller, "assignCreate", "save") /\ procs' # procs =>
            /\ Len(assignments') = Len(assignments) + 1
            /\ SubSeq(assignments', 1, Len(assignments)) = assignments
            /\ assignments'[Len(assignments')].surveyorSketchUpload =
                   procs[Caller].payload.surveyorSketchUploadId
            /\ assignments'[Len(assignments')].status = SURVEY_SKETCH_ASSIGNMENT_STATUS.ASSIGNED
            /\ InCall(Caller, "assignCreate", "sync")'
       /\ InCall(Caller, "assignCreate", "sync") /\ procs' # procs =>
            /\ response' = Ok("assignCreate")
            /\ assignments' = assignments]_vars

\* a create has just succeeded for a request whose earlier assignment was cancelled
C5_Witness ==
    /\ response = Ok("assignCreate")
    /\ Len(assignments) = 2
    /\ assignments[1].surveyorSketchUpload = assignments[2].surveyorSketchUpload
    /\ assignments[1].status = SURVEY_SKETCH_ASSIGNMENT_STATUS.CANCELLED
    /\ assignments[2].status = SURVEY_SKETCH_ASSIGNMENT_STATUS.ASSIGNED

\* C6: once an assignment's status is COMPLETED or CANCELLED, no later call
\* changes it.
C6_TerminalStatus ==
    [][\A a \in DOMAIN assignments :
           assignments[a].status \in Terminal =>
               assignments'[a].status = assignments[a].status]_vars

\* the step is the save of a respond(accept) on assignment a, made by an
\* operator of a's center who read a in status ASSIGNED
AcceptSave(a) ==
    \E p \in Procs :
        /\ InCall(p, "respond", "save")
        /\ procs[p].id = a
        /\ procs[p].action = CAD_ASSIGNMENT_RESPONSE_ACTION.ACCEPT
        /\ Users[procs[p].cadUser].cadCenter = assignments[a].cadCenter
        /\ procs'[p] = Idle

\* C7: an assignment's status becomes IN_PROGRESS only from ASSIGNED and only
\* by a respond(accept) of an operator of the assignment's center.
C7_InProgressOnlyByAccept ==
    [][\A a \in DOMAIN assignments :
           (/\ assignments[a].status # SURVEY_SKETCH_ASSIGNMENT_STATUS.IN_PROGRESS
            /\ assignments'[a].status = SURVEY_SKETCH_ASSIGNMENT_STATUS.IN_PROGRESS)
           => /\ assignments[a].status = SURVEY_SKETCH_ASSIGNMENT_STATUS.ASSIGNED
              /\ AcceptSave(a)]_vars

\* the operator is linked to the assignment's center
OwnCenter(a, u) == Users[u].cadCenter = assignments[a].cadCenter

\* C8: respond on an ASSIGNED assignment by an operator of its center is not
\* refused; accept stores status IN_PROGRESS and assignedTo = the operator and
\* returns OK; reject stores status CANCELLED, then sets the linked sketch
\* request's status to PENDING and returns OK.
C8_RespondEffect ==
    [][/\ \A a \in DOMAIN assignments, u \in CadUsers, act \in ResponseActions :
              (/\ RespondBegin(Caller, a, u, act)
               /\ assignments[a].status = SURVEY_SKETCH_ASSIGNMENT_STATUS.ASSIGNED
               /\ OwnCenter(a, u))
              => /\ InCall(Caller, "respond", "save")'
                 /\ procs'[Caller].id = a
                 /\ procs'[Caller].cadUser = u
                 /\ procs'[Caller].action = act
       /\ InCall(Caller, "respond", "save") /\ procs' # procs =>
            LET a == procs[Caller].id IN
            IF procs[Caller].action = CAD_ASSIGNMENT_RESPONSE_ACTION.ACCEPT
            THEN /\ assignments'[a].status = SURVEY_SKETCH_ASSIGNMENT_STATUS.IN_PROGRESS
                 /\ assignments'[a].assignedTo = procs[Caller].cadUser
                 /\ response' = Ok("respond")
            ELSE /\ assignments'[a].status = SURVEY_SKETCH_ASSIGNMENT_STATUS.CANCELLED
                 /\ InCall(Caller, "respond", "sync")'
                 /\ procs'[Caller].upload = assignments[a].surveyorSketchUpload
       /\ InCall(Caller, "respond", "sync") /\ procs' # procs =>
            /\ uploads'[procs[Caller].upload].status = SURVEY_SKETCH_STATUS.PENDING
            /\ response' = Ok("respond")]_vars

\* a reject has just returned: the assignment is CANCELLED, its request PENDING
C8_Witness ==
    /\ response = Ok("respond")
    /\ \E a \in DOMAIN assignments :
           /\ assignments[a].status = SURVEY_SKETCH_ASSIGNMENT_STATUS.CANCELLED
           /\ uploads[assignments[a].surveyorSketchUpload].status = SURVEY_SKETCH_STATUS.PENDING
    /\ \E a \in DOMAIN assignments :
           /\ assignments[a].status = SURVEY_SKETCH_ASSIGNMENT_STATUS.IN_PROGRESS
           /\ assignments[a].assignedTo = "o1"

\* C9: respond by an operator with no linked center, or linked to another
\* center than the assignment's, ends in Forbidden for either action and for
\* every current status, and changes neither collection.
C9_ForbiddenOtherCenter ==
    [][\A a \in DOMAIN assignments, u \in CadUsers, act \in ResponseActions :
           (RespondBegin(Caller, a, u, act) /\ ~OwnCenter(a, u))
           => /\ response'.op = "respond"
              /\ response'.kind = "Forbidden"
              /\ assignments' = assignments
              /\ uploads' = uploads
              /\ procs' = procs]_vars

\* an operator of another center was refused on an assignment that is not ASSIGNED
C9_Witness ==
    /\ response = Err("respond", "Forbidden", "ASSIGNMENT_NOT_FOR_YOUR_CENTER")
    /\ Len(assignments) = 1
    /\ assignments[1].status = SURVEY_SKETCH_ASSIGNMENT_STATUS.COMPLETED

\* C10: respond by an operator of the assignment's own center on an
\* assignment that is not ASSIGNED ends in BadRequest whose message names the
\* current status, and changes neither collection.
C10_BadRequestNotAssigned ==
    [][\A a \in DOMAIN assignments, u \in CadUsers, act \in ResponseActions :
           (/\ RespondBegin(Caller, a, u, act)
            /\ OwnCenter(a, u)
            /\ assignments[a].status # SURVEY_SKETCH_ASSIGNMENT_STATUS.ASSIGNED)
           => /\ response'.op = "respond"
              /\ response'.kind = "BadRequest"
              /\ response'.names = <<assignments[a].status>>
              /\ assignments' = assignments
              /\ uploads' = uploads
              /\ procs' = procs]_vars

\* an operator of the assignment's center was refused on an ON_HOLD assignment
C10_Witness ==
    /\ response.kind = "BadRequest"
    /\ response.code = "INVALID_STATUS_FOR_RESPONSE"
    /\ response.names = <<SURVEY_SKETCH_ASSIGNMENT_STATUS.ON_HOLD>>
    /\ Len(assignments) = 1
    /\ assignments[1].cadCenter = "C1"

\* every request other than u is as it was, and u differs at most in status
OnlyStatusOf(u) ==
    /\ Len(uploads') = Len(uploads)
    /\ \A v \in DOMAIN uploads :
           IF v = u THEN [uploads'[v] EXCEPT !.status = uploads[v].status] = uploads[v]
           ELSE uploads'[v] = uploads[v]

\* C11: a successful assignment create appends exactly one assignment, with
\* status ASSIGNED and assignedTo null, for the named request and center, then
\* sets that request's status to ASSIGNED and returns OK; every other
\* assignment and every other request is left as it was.
C11_CreateEffect ==
    [][/\ InCall(Caller, "assignCreate", "save") /\ procs' # procs =>
            /\ assignments' = Append(assignments,
                   [surveyorSketchUpload |-> procs[Caller].payload.surveyorSketchUploadId,
                    cadCenter |-> procs[Caller].payload.cadCenterId,
                    assignedTo |-> NULL,
                    status |-> SURVEY_SKETCH_ASSIGNMENT_STATUS.ASSIGNED,
                    completedAt |-> NULL])
            /\ uploads' = uploads
       /\ InCall(Caller, "assignCreate", "sync") /\ procs' # procs =>
            /\ response' = Ok("assignCreate")
            /\ assignments' = assignments
            /\ uploads'[procs[Caller].payload.surveyorSketchUploadId].status =
                   SURVEY_SKETCH_STATUS.ASSIGNED
            /\ OnlyStatusOf(procs[Caller].payload.surveyorSketchUploadId)]_vars

\* a create has just succeeded for the second request while the first one
\* holds an accepted assignment
C11_Witness ==
    /\ response = Ok("assignCreate")
    /\ Len(uploads) = 2 /\ Len(assignments) = 2
    /\ assignments[1].surveyorSketchUpload = 1
    /\ assignments[1].status = SURVEY_SKETCH_ASSIGNMENT_STATUS.IN_PROGRESS
    /\ assignments[2].surveyorSketchUpload = 2
    /\ assignments[2].status = SURVEY_SKETCH_ASSIGNMENT_STATUS.ASSIGNED
    /\ assignments[2].assignedTo = NULL
    /\ uploads[1].status = SURVEY_SKETCH_STATUS.ASSIGNED
    /\ uploads[2].status = SURVEY_SKETCH_STATUS.ASSIGNED

\* C12: an update with status CANCELLED on an existing assignment stores
\* CANCELLED on it, then sets the status of the request it is linked to, and
\* of no other, to PENDING and returns OK: the same request write as the one
\* respond(reject) makes.  Checked with one call at a time.
C12_CancelReopensRequest ==
    [][/\ \A a \in DOMAIN assignments :
              UpdateBegin(Caller, a, [status |-> SURVEY_SKETCH_ASSIGNMENT_STATUS.CANCELLED])
              => /\ InCall(Caller, "update", "save")'
                 /\ procs'[Caller].id = a
                 /\ procs'[Caller].cancel
       /\ (InCall(Caller, "update", "save") /\ procs' # procs) =>
            (procs[Caller].cancel =>
                /\ assignments'[procs[Caller].id].status = SURVEY_SKETCH_ASSIGNMENT_STATUS.CANCELLED
                /\ uploads' = uploads
                /\ InCall(Caller, "update", "sync")'
                /\ procs'[Caller].upload = assignments[procs[Caller].id].surveyorSketchUpload)
       /\ (InCall(Caller, "update", "sync") /\ procs' # procs) =>
            /\ uploads'[procs[Caller].upload].status = SURVEY_SKETCH_STATUS.PENDING
            /\ OnlyStatusOf(procs[Caller].upload)
            /\ assignments' = assignments
            /\ response' = Ok("update")
       /\ (InCall(Caller, "respond", "sync") /\ procs' # procs) =>
            /\ uploads'[procs[Caller].upload].status = SURVEY_SKETCH_STATUS.PENDING
            /\ OnlyStatusOf(procs[Caller].upload)]_vars

\* an administrator has just cancelled the accepted assignment of the second
\* request: that request is PENDING again, the first one still ASSIGNED
C12_Witness ==
    /\ response = Ok("update")
    /\ Len(uploads) = 2 /\ Len(assignments) = 2
    /\ assignments[1].surveyorSketchUpload = 1
    /\ assignments[1].status = SURVEY_SKETCH_ASSIGNMENT_STATUS.ASSIGNED
    /\ assignments[2].surveyorSketchUpload = 2
    /\ assignments[2].status = SURVEY_SKETCH_ASSIGNMENT_STATUS.CANCELLED
    /\ assignments[2].assignedTo = "o1"
    /\ uploads[1].status = SURVEY_SKETCH_STATUS.ASSIGNED
    /\ uploads[2].status = SURVEY_SKETCH_STATUS.PENDING

\* every COMPLETED assignment has a completedAt
CompletedHasDate ==
    \A a \in DOMAIN assignments :
        assignments[a].status = SURVEY_SKETCH_ASSIGNMENT_STATUS.COMPLETED
            => assignments[a].completedAt # NULL

\* C13: an update with status COMPLETED stamps completedAt in the same save
\* that stores the status, leaves every sketch request unchanged and returns;
\* and in every reachable state, under any interleaving of create, respond
\* and update calls, a COMPLETED assignment has a non-null completedAt.
C13_CompletedStamped ==
    /\ []CompletedHasDate
    /\ [][\A p \in Procs :
            /\ \A a \in DOMAIN assignments :
                   UpdateBegin(p, a, [status |-> SURVEY_SKETCH_ASSIGNMENT_STATUS.COMPLETED])
                   => /\ InCall(p, "update", "save")'
                      /\ procs'[p].id = a
                      /\ "completedAt" \in DOMAIN procs'[p].set
                      /\ ~procs'[p].cancel
                      /\ ("status" \in DOMAIN procs'[p].set
                             \/ assignments[a].status = SURVEY_SKETCH_ASSIGNMENT_STATUS.COMPLETED)
            /\ (/\ InCall(p, "update", "save")
                /\ "completedAt" \in DOMAIN procs[p].set
                /\ procs'[p] # procs[p])
               => /\ assignments'[procs[p].id].completedAt # NULL
                  /\ ("status" \in DOMAIN procs[p].set =>
                         assignments'[procs[p].id].status = SURVEY_SKETCH_ASSIGNMENT_STATUS.COMPLETED)
                  /\ uploads' = uploads
                  /\ procs'[p] = Idle
                  /\ response' = Ok("update")]_vars

\* an update to COMPLETED has just returned: the assignment is COMPLETED with
\* a completedAt, its request still ASSIGNED
C13_Witness ==
    /\ response = Ok("update")
    /\ Len(assignments) = 1
    /\ assignments[1].status = SURVEY_SKETCH_ASSIGNMENT_STATUS.COMPLETED
    /\ assignments[1].completedAt # NULL
    /\ uploads[assignments[1].surveyorSketchUpload].status = SURVEY_SKETCH_STATUS.ASSIGNED

\* a non-null assignedTo names an operator linked to the assignment's center
AssigneeOfOwnCenter ==
    \A a \in DOMAIN assignments :
        assignments[a].assignedTo # NULL
            => /\ assignments[a].assignedTo \in CadUsers
               /\ OwnCenter(a, assignments[a].assignedTo)

\* C14: an assignment is created with assignedTo null; assignedTo changes
\* only in the save of a respond(accept) on that assignment that returns OK,
\* made by an operator linked to the assignment's center, and becomes that
\* operator; so a non-null assignedTo always names an operator of the
\* assignment's center, and no create or update step sets it.
C14_AssigneeOnlyByAccept ==
    /\ []AssigneeOfOwnCenter
    /\ [][\A a \in DOMAIN assignments' :
            IF a \notin DOMAIN assignments
            THEN assignments'[a].assignedTo = NULL
            ELSE assignments'[a].assignedTo # assignments[a].assignedTo
                 => \E p \in Procs :
                        /\ InCall(p, "respond", "save")
                        /\ procs[p].id = a
                        /\ procs[p].action = CAD_ASSIGNMENT_RESPONSE_ACTION.ACCEPT
                        /\ OwnCenter(a, procs[p].cadUser)
                        /\ assignments'[a].assignedTo = procs[p].cadUser
                        /\ procs'[p] = Idle
                        /\ response' = Ok("respond")]_vars

\* the operator of center C2 has just accepted an assignment of center C2
C14_Witness ==
    /\ response = Ok("respond")
    /\ Len(assignments) = 1
    /\ assignments[1].cadCenter = "C2"
    /\ assignments[1].assignedTo = "o2"
    /\ assignments[1].status = SURVEY_SKETCH_ASSIGNMENT_STATUS.IN_PROGRESS

\* C15: the Conflict that create reports for a request with a non-cancelled
\* assignment carries the id of that assignment.
C15_ConflictNamesExisting ==
    [][\A p \in Procs :
           (/\ InCall(p, "assignCreate", "check")
            /\ procs'[p] # procs[p]
            /\ response'.kind = "Conflict")
           => \E i \in DOMAIN response'.names :
                  response'.names[i] = FindExisting(procs[p].payload.surveyorSketchUploadId)]_vars

\* the four ids of the payload refer to existing entities
AllExist(payload) ==
    LET c == CastPayload(payload) IN
    /\ c.district \in DOMAIN Districts /\ c.taluka \in DOMAIN Talukas
    /\ c.hobli \in DOMAIN Hoblis /\ c.village \in DOMAIN Villages

\* the level of the first parent pointer that is not the id the payload gives
\* for the parent, both taken as canonical strings; NULL when all three agree
FirstMismatch(payload) ==
    LET c == CastPayload(payload) IN
    IF Talukas[c.taluka].districtId # c.district THEN "TALUKA_DISTRICT_MISMATCH"
    ELSE IF Hoblis[c.hobli].talukaId # c.taluka THEN "HOBLI_TALUKA_MISMATCH"
    ELSE IF Villages[c.village].hobliId # c.hobli THEN "VILLAGE_HOBLI_MISMATCH"
    ELSE NULL

\* C16: a surveyor's create whose four ids refer to existing entities passes
\* hierarchy validation exactly when taluka.districtId, hobli.talukaId and
\* village.hobliId are the district, taluka and hobli of the payload (ids
\* compared as canonical strings); otherwise it ends in BadRequest naming the
\* first mismatching level in the order taluka, hobli, village, with nothing
\* persisted and no call left in flight.
C16_HierarchyValidation ==
    [][\A payload \in Payloads :
           (UploadCreateBegin(Caller, "s1", payload) /\ AllExist(payload))
           => /\ uploads' = uploads
              /\ IF FirstMismatch(payload) = NULL
                 THEN /\ InCall(Caller, "uploadCreate", "generate")'
                      /\ response' = NoResponse
                 ELSE /\ response' = Err("uploadCreate", "BadRequest", FirstMismatch(payload))
                      /\ procs' = procs]_vars

\* the (parent, code) pairs held at each level
DistrictKeys == {Districts[d].code : d \in DOMAIN Districts}
TalukaKeys   == {<<Talukas[t].districtId, Talukas[t].code>> : t \in DOMAIN Talukas}
HobliKeys    == {<<Hoblis[h].talukaId, Hoblis[h].code>> : h \in DOMAIN Hoblis}
VillageKeys  == {<<Villages[v].hobliId, Villages[v].code>> : v \in DOMAIN Villages}

KeysUnique ==
    /\ Cardinality(DistrictKeys) = Cardinality(DOMAIN Districts)
    /\ Cardinality(TalukaKeys) = Cardinality(DOMAIN Talukas)
    /\ Cardinality(HobliKeys) = Cardinality(DOMAIN Hoblis)
    /\ Cardinality(VillageKeys) = Cardinality(DOMAIN Villages)

CreateOps == {"districtCreate", "talukaCreate", "hobliCreate", "villageCreate"}

\* the step either is refused with Conflict and writes nothing, or persists
\* exactly one document of the collection, depending on whether the key is held
OneWins(held, coll) ==
    IF held
    THEN response'.kind = "Conflict" /\ masters' = masters
    ELSE /\ response'.kind = "OK"
         /\ Cardinality(DOMAIN masters'[coll]) = Cardinality(DOMAIN masters[coll]) + 1
         /\ \A c \in DOMAIN masters : \A id \in DOMAIN masters[c] :
                id \in DOMAIN masters'[c] /\ masters'[c][id] = masters[c][id]

\* C17: of the create calls for one (parent, code) of a level, however they
\* interleave, the one whose save comes first persists one document and every
\* other ends with Conflict and persists nothing: no level ever holds a key
\* twice, and no such call ends in any other way.
C17_SameKeyOneWins ==
    /\ []KeysUnique
    /\ [][/\ response'.op \in CreateOps => response'.kind \in {"OK", "Conflict"}
          /\ response'.op = "districtCreate" =>
                 OneWins(SameKeyDistrict.code \in DistrictKeys, "districts")
          /\ \A p \in Procs :
                 procs[p].op \in CreateOps /\ procs[p].pc = "save" /\ procs'[p] = Idle =>
                     CASE procs[p].op = "talukaCreate" ->
                              OneWins(<<procs[p].districtId, procs[p].payload.code>> \in TalukaKeys, "talukas")
                       [] procs[p].op = "hobliCreate" ->
                              OneWins(<<procs[p].talukaId, procs[p].payload.code>> \in HobliKeys, "hoblis")
                       [] procs[p].op = "villageCreate" ->
                              OneWins(<<procs[p].payload.hobliId, procs[p].payload.code>> \in VillageKeys, "villages")
         ]_vars

\* one call has persisted the taluka and another was refused
C17_Witness ==
    /\ AllIdle
    /\ response = Err("talukaCreate", "Conflict", "DUPLICATE_CODE")
    /\ Cardinality(DOMAIN Talukas) = Cardinality(DOMAIN SeedTalukas) + 1
    /\ <<"D1", SameKeyTaluka.code>> \in TalukaKeys

\* every parent pointer names a document of the level above
RefIntegrity ==
    /\ \A t \in DOMAIN Talukas : Talukas[t].districtId \in DOMAIN Districts
    /\ \A h \in DOMAIN Hoblis : Hoblis[h].talukaId \in DOMAIN Talukas
    /\ \A v \in DOMAIN Villages : Villages[v].hobliId \in DOMAIN Hoblis

\* the taluka a hobli create works on lies in the district the call declares:
\* the one of its districtId, else one of its district name, else none declared
HobliChainIntact(call) ==
    /\ call.talukaId \in DOMAIN Talukas
    /\ IF call.payload.districtId # NULL
       THEN Talukas[call.talukaId].districtId = call.payload.districtId
       ELSE call.payload.districtName # NULL =>
                Talukas[call.talukaId].districtId \in DistrictsNamed(call.payload.districtName)

VillageChainIntact(payload) ==
    /\ payload.talukaId \in DOMAIN Talukas /\ payload.hobliId \in DOMAIN Hoblis
    /\ Talukas[payload.talukaId].districtId = payload.districtId
    /\ Hoblis[payload.hobliId].talukaId = payload.talukaId

VillagePersistsOnlyIntact ==
    [][\A p \in Procs : procs[p].op = "villageCreate" /\ masters' # masters =>
            VillageChainIntact(procs[p].payload)]_vars

\* C18: after any sequence of hierarchy creates and updates every taluka
\* points to an existing district, every hobli to an existing taluka and every
\* village to an existing hobli; and a hobli or village create persists a
\* document only if its declared ancestors form one unbroken chain.
C18_ReferentialIntegrity ==
    /\ []RefIntegrity
    /\ VillagePersistsOnlyIntact
    /\ [][\A p \in Procs : procs[p].op = "hobliCreate" /\ masters' # masters =>
              HobliChainIntact(procs[p])]_vars

\* C19: a sketch-request create whose insert is rejected because the
\* generated applicationId is already persisted answers with a Conflict.
C19_CollisionIsConflict ==
    [][\A p \in Procs :
          (/\ InCall(p, "uploadCreate", "insert")
           /\ ApplicationIdTaken(procs[p].applicationId)
           /\ procs'[p] # procs[p])
          => response'.op = "uploadCreate" /\ response'.kind = "Conflict"]_vars

IsSurveyor(actor) == Users[actor].role = USER_ROLES.SURVEYOR

\* the _ids of a sequence of returned documents
Returned(data) == {data[i] : i \in DOMAIN data}

\* C20: a surveyor's getById on a request submitted by someone else ends with
\* Forbidden and a surveyor's list returns only requests the caller submitted,
\* whatever surveyorId, status and cadCenterId options are given; getById by
\* an administrator returns any existing request.
C20_SurveyorSeesOwnOnly ==
    [][\A p \in Procs :
          /\ InCall(p, "uploadGet", "find") /\ procs'[p] = Idle =>
                 LET a == procs[p].actor
                     u == procs[p].uploadId
                 IN  /\ IsSurveyor(a) /\ u \in DOMAIN uploads /\ uploads[u].surveyor # a =>
                            response'.kind = "Forbidden"
                     /\ IsSurveyor(a) /\ response'.kind = "OK" =>
                            \A d \in Returned(response'.data) : uploads[d].surveyor = a
                     /\ Users[a].role = USER_ROLES.ADMIN /\ u \in DOMAIN uploads =>
                            response' = OkDoc("uploadGet", u)
          /\ InCall(p, "uploadList", "find") /\ procs'[p] = Idle /\ IsSurveyor(procs[p].actor) =>
                 /\ response'.kind = "OK"
                 /\ \A d \in Returned(response'.data) : uploads[d].surveyor = procs[p].actor
                 /\ response'.total <= Cardinality({u \in DOMAIN uploads : uploads[u].surveyor = procs[p].actor})
      ]_vars

\* a getById has just been refused while requests of both surveyors are stored
C20_Witness ==
    /\ response = Err("uploadGet", "Forbidden", NULL)
    /\ \E u, w \in DOMAIN uploads : uploads[u].surveyor = "s1" /\ uploads[w].surveyor = "s2"

\* C22: a persisted sketch request keeps its applicationId for ever: every
\* step leaves every stored request in place with the applicationId it had,
\* and a step that changes a stored request changes its status only and is a
\* step of an assignment call.
C22_ApplicationIdImmutable ==
    [][\A u \in DOMAIN uploads :
          /\ u \in DOMAIN uploads'
          /\ uploads'[u].applicationId = uploads[u].applicationId
          /\ uploads'[u] # uploads[u] =>
                 /\ [uploads'[u] EXCEPT !.status = uploads[u].status] = uploads[u]
                 /\ \E p \in Procs : procs[p].op \in {"assignCreate", "update", "respond"}
                                     /\ procs'[p] = Idle]_vars

\* the first request has been assigned, released again and is still number 1
\* of its scope although a later request exists
C22_Witness ==
    /\ Len(uploads) = 2
    /\ uploads[1].applicationId.digits = <<1>>
    /\ uploads[1].status = SURVEY_SKETCH_STATUS.PENDING
    /\ \E a \in DOMAIN assignments :
           /\ assignments[a].surveyorSketchUpload = 1
           /\ assignments[a].status = SURVEY_SKETCH_ASSIGNMENT_STATUS.CANCELLED
    /\ AllIdle

\* the requests that hold a non-cancelled assignment to center c
ActiveAt(c) ==
    {assignments[a].surveyorSketchUpload :
        a \in {b \in DOMAIN assignments :
                  /\ assignments[b].cadCenter = c
                  /\ assignments[b].status # SURVEY_SKETCH_ASSIGNMENT_STATUS.CANCELLED}}

\* C23: an administrator's list filtered by a drafting center alone returns
\* exactly the requests with a non-cancelled assignment to that center, so a
\* request whose only assignment there is CANCELLED is left out.
C23_CenterFilterActiveOnly ==
    [][\A p \in Procs :
          (/\ InCall(p, "uploadList", "find") /\ procs'[p] = Idle
           /\ Users[procs[p].actor].role = USER_ROLES.ADMIN
           /\ procs[p].options.cadCenterId # NULL
           /\ procs[p].options.surveyorId = NULL /\ procs[p].options.status = NULL
           /\ procs[p].options.page = 0 /\ procs[p].options.limit = 0)
          => /\ Returned(response'.data) = ActiveAt(procs[p].options.cadCenterId)
             /\ response'.total = Cardinality(ActiveAt(procs[p].options.cadCenterId))]_vars
(***************************************************************************)
(* C24: a create whose body carries no url under any of the five document  *)
(* keys (absent, empty or blank) is rejected with BadRequest and nothing is *)
(* stored or started; a body with a url is taken up, and a call whose       *)
(* documents hold exactly one key ends Ok with the request appended in      *)
(* status PENDING; every stored request holds a url.                        *)
(***************************************************************************)
CarriesUrl(raw) == raw.kind # "absent" /\ raw.url \notin {"", " "}

Deleted(c) == c \in DOMAIN masters.cadCenters /\ masters.cadCenters[c].deletedAt # NULL

C21_SoftDeleteIsFinal ==
    [][/\ \A c \in DOMAIN SeedCadCenters :
            Deleted(c) => c \in DOMAIN masters'.cadCenters /\ masters'.cadCenters[c].deletedAt # NULL
       /\ response'.op = "cadCenterList" =>
            \A c \in response'.data : masters'.cadCenters[c].deletedAt = NULL
       /\ \A p \in Procs, c \in DOMAIN SeedCadCenters :
            (/\ Deleted(c)
             /\ \/ CadCenterGetById(p, c)
                \/ \E name \in {"n1", "n2"} : CadCenterUpdateFind(p, c, [name |-> name])
                \/ CadCenterRemoveFind(p, c)
                \/ \E u \in 1..MaxCenterUploads :
                      AssignCreateBegin(p, [surveyorSketchUploadId |-> u, cadCenterId |-> c]))
            => /\ response'.kind = "NotFound"
               /\ UNCHANGED <<uploads, assignments, procs, year, masters, db, accounts>>
      ]_vars

\* center C1 has been removed, and an assignment of the stored request to it
\* has just been refused
C21_Witness ==
    /\ Deleted("C1")
    /\ Len(uploads) = 1
    /\ response = Err("assignCreate", "NotFound", "CAD_CENTER_NOT_FOUND")
    /\ AllIdle

(***************************************************************************)
(* C25: in create, cancelling update and reject the step that writes the    *)
(* assignment leaves every request as it is, and the request's status is    *)
(* written by a later step of the same call; a call that ends between the   *)
(* two writes leaves the assignment written and the request unchanged; and  *)
(* a request's status changes in no step other than the second write of     *)
(* such a call, so nothing repairs the pair afterwards.                     *)
(***************************************************************************)
TwoWriteOps == {"assignCreate", "update", "respond"}

C25_AssignmentWrittenFirst ==
    [][/\ (procs[Caller].op \in TwoWriteOps /\ procs[Caller].pc = "save"
           /\ procs'[Caller].op \in TwoWriteOps /\ procs'[Caller].pc = "sync")
            => uploads' = uploads
       /\ (procs[Caller].op \in TwoWriteOps /\ procs[Caller].pc = "sync"
           /\ procs'[Caller] = Idle /\ response' = NoResponse)
            => uploads' = uploads /\ assignments' = assignments
       /\ \A u \in 1..Len(uploads) :
            uploads'[u] # uploads[u]
            => /\ procs[Caller].op \in TwoWriteOps /\ procs[Caller].pc = "sync"
               /\ procs'[Caller] = Idle /\ response'.kind = "OK"
               /\ assignments' = assignments
               /\ \E a \in 1..Len(assignments) : assignments[a].surveyorSketchUpload = u
      ]_vars

\* a create ended between its writes, the operator then accepted the
\* assignment, and the request is still PENDING
C25_Witness ==
    /\ AllIdle
    /\ Len(assignments) = 1
    /\ assignments[1].status = SURVEY_SKETCH_ASSIGNMENT_STATUS.IN_PROGRESS
    /\ uploads[assignments[1].surveyorSketchUpload].status = SURVEY_SKETCH_STATUS.PENDING

(***************************************************************************)
(* C26: an update that gives a district, taluka or hobli a code another     *)
(* document of the same parent already holds fails with Conflict and        *)
(* changes nothing, and the keys stay unique.                               *)
(***************************************************************************)
CodeHeld(coll, parent, id, code) ==
    /\ id \in DOMAIN masters[coll]
    /\ \E other \in DOMAIN masters[coll] \ {id} :
          /\ masters[coll][other].code = code
          /\ parent # NULL => masters[coll][other][parent] = masters[coll][id][parent]

C26_DuplicateUpdateIsConflict ==
    [][/\ \A id \in {"D1", "D3"}, code \in {"KA", "TN"} :
            (CodeHeld("districts", NULL, id, code) /\ DistrictUpdate(Caller, id, [code |-> code]))
            => response'.kind = "Conflict" /\ masters' = masters
       /\ \A id \in {"T1", "T3"}, code \in {"N", "X"} :
            (CodeHeld("talukas", "districtId", id, code) /\ TalukaUpdate(Caller, id, [code |-> code]))
            => response'.kind = "Conflict" /\ masters' = masters
       /\ \A id \in {"H1", "H3"}, code \in {"h", "x"} :
            (CodeHeld("hoblis", "talukaId", id, code) /\ HobliUpdate(Caller, id, [code |-> code]))
            => response'.kind = "Conflict" /\ masters' = masters
       /\ KeysUnique'
      ]_vars

(***************************************************************************)
(* C27: of the respond calls on one assignment at most one succeeds: a      *)
(* respond writes the assignment only while its stored status is still      *)
(* ASSIGNED, so an accept and a reject never both take effect.              *)
(***************************************************************************)
C27_OneRespondWins ==
    [][\A p \in Procs :
          (InCall(p, "respond", "save") /\ procs'[p] # procs[p])
          => assignments[procs[p].id].status = SURVEY_SKETCH_ASSIGNMENT_STATUS.ASSIGNED
      ]_vars

(***************************************************************************)
(* C28: with submissions made one after another, every create that reaches  *)
(* its insert succeeds, however many requests its scope already holds.      *)
(***************************************************************************)
C28_SequentialCreateSucceeds ==
    [][(InCall(Caller, "uploadCreate", "insert") /\ procs'[Caller] = Idle)
          => /\ response' = Ok("uploadCreate")
             /\ Len(uploads') = Len(uploads) + 1
      ]_vars

(***************************************************************************)
(* C29: whenever ensureDb returns without throwing the connection is in     *)
(* readyState 1, also for a call made after the connection has dropped.     *)
(***************************************************************************)
C29_EnsureDbMeansConnected ==
    [][\A p \in Procs :
          (/\ procs'[p] # procs[p]
           /\ procs'[p].op \notin {"idle", "ensureDb"} /\ procs'[p].pc = "service"
           /\ procs[p].op \in {"idle", "ensureDb"})
          => db'.readyState = 1
      ]_vars

(***************************************************************************)
(* C30: a blocked user stays DISABLED until an unblock succeeds, whatever   *)
(* unauthenticated calls are made, and every request that authenticates as  *)
(* a blocked user is turned away.                                           *)
(***************************************************************************)
C30_BlockedStaysBlocked ==
    [][/\ \A u \in DOMAIN accounts :
            (accounts[u].status = USER_STATUS.DISABLED /\ accounts'[u].status # USER_STATUS.DISABLED)
            => response' = Ok("unblockUser")
       /\ \A p \in Procs :
            (/\ procs[p].op = "authenticate" /\ procs'[p] = Idle
             /\ accounts[procs[p].user].status = USER_STATUS.DISABLED)
            => response'.kind \in {"Unauthorized", "Internal"}
      ]_vars

====
